---------------------------- MODULE Spec2Model ----------------------------
(***************************************************************************)
(* xhMPEG: the App component's state machine (file pick and probe, trim    *)
(* slider, wizard navigation, runConversion) and the pure helpers it uses  *)
(* (path helpers, evenDimension, buildResolutionOptions).                  *)
(*                                                                         *)
(* Text values that the code takes apart (paths, file names, the text of   *)
(* numeric inputs) are sequences of one-character strings; text that is    *)
(* only stored and shown (status messages, option keys) is a string.       *)
(* Handlers run on the state of the latest render: React re-renders after  *)
(* every event handler and after every resumed await, so each action below *)
(* is one handler, or one segment of an async handler between two awaits,  *)
(* followed by the effects its state changes trigger.                      *)
(*                                                                         *)
(* A session starts with an empty settings store (a first launch), so the  *)
(* load effect (mediaUtils.ts 293-319) finds nothing saved and leaves the  *)
(* useState defaults in place.  The file dialog does not block the window: *)
(* Import is disabled only by loadingInfo, which is set after the dialog   *)
(* has returned, so a second dialog can be opened while one is open.       *)
(***************************************************************************)
EXTENDS Integers, Sequences, FiniteSets, TLC

(***************************************************************************)
(* Bounds of the model.                                                    *)
(***************************************************************************)
\* file dialogs opened by pickMediaFile in one session
MaxPicks == 2
\* run_conversion invocations issued in one session
MaxRuns == 2
\* width of the trim track in pixels (getBoundingClientRect().width)
TrackWidth == 2
\* largest source width and height given to buildResolutionOptions
MaxDim == 12

(***************************************************************************)
(* Arithmetic of the JavaScript Math functions, on rationals num/den.      *)
(***************************************************************************)
Min(a, b) == IF a <= b THEN a ELSE b

Max(a, b) == IF a >= b THEN a ELSE b

\* Math.round(num/den) for den > 0: the nearest integer, a half rounds up
Round(num, den) == (2 * num + den) \div (2 * den)

\* an optional value: absent (null, undefined) or present
None == <<>>

Some(v) == <<v>>

\* the truthiness of an optional number: present and not 0
Truthy(o) == o # None /\ o[1] # 0

(***************************************************************************)
(* Path helpers (mediaUtils.ts 1-23).                                      *)
(***************************************************************************)
IsSep(c) == c = "/" \/ c = "\\"

\* name.lastIndexOf(c), counted from 1; 0 when c does not occur
LastIndexWhere(s, c) ==
  LET hits == {i \in 1..Len(s) : s[i] = c}
  IN  IF hits = {} THEN 0 ELSE CHOOSE i \in hits : \A j \in hits : j <= i

LastSepIndex(s) ==
  LET hits == {i \in 1..Len(s) : IsSep(s[i])}
  IN  IF hits = {} THEN 0 ELSE CHOOSE i \in hits : \A j \in hits : j <= i

joinPaths(dir, file) ==
  IF dir = <<>> THEN file
  ELSE IF IsSep(dir[Len(dir)]) THEN dir \o file
  ELSE LET sep == IF \E i \in 1..Len(dir) : dir[i] = "\\" THEN "\\" ELSE "/"
       IN  dir \o <<sep>> \o file

\* path.split(/[/\\]/).pop(): what follows the last separator
fileNameFromPath(path) == SubSeq(path, LastSepIndex(path) + 1, Len(path))

\* /^(.*)[\\/][^\\/]+$/: the text before the last separator, when a name follows it
parentDir(path) ==
  LET k == LastSepIndex(path)
  IN  IF k = 0 \/ k = Len(path) THEN <<>> ELSE SubSeq(path, 1, k - 1)

baseNameNoExt(name) ==
  LET dot == LastIndexWhere(name, ".")
  IN  IF dot <= 1 THEN name ELSE SubSeq(name, 1, dot - 1)

\* text.replace(/\.[^/.]+$/, ""): drop a final ".ext" whose ext is non-empty
\* and holds no "/" (it holds no "." since it follows the last one)
StripExtensionKeepsAll(text) == text

\* text.replace(/\.[^/.]+$/, "")
StripExtension(text) ==
  LET dot == LastIndexWhere(text, ".")
  IN  IF dot = 0 \/ dot = Len(text) THEN text
      ELSE IF \E i \in (dot + 1)..Len(text) : text[i] = "/" THEN text
      ELSE SubSeq(text, 1, dot - 1)

(***************************************************************************)
(* Resolution presets (mediaUtils.ts 39-74).                               *)
(***************************************************************************)
evenDimensionBumpsEven(num, den) ==
  LET rounded == Round(num, den)
  IN  IF rounded % 2 = 0 THEN rounded + 1 ELSE rounded

evenDimensionFloors(num, den) ==
  LET rounded == num \div den
  IN  IF rounded % 2 = 0 THEN rounded ELSE rounded + 1

\* evenDimension(value) for value = num/den
evenDimension(num, den) ==
  LET rounded == Round(num, den)
  IN  IF rounded % 2 = 0 THEN rounded ELSE rounded + 1

\* the factors of the scaled presets, as fractions
ScaleFactors ==
  [scale_125 |-> <<5, 4>>, scale_75 |-> <<3, 4>>, scale_50 |-> <<1, 2>>]

scaleOption(sourceWidth, sourceHeight, key) ==
  [value  |-> key,
   width  |-> evenDimension(sourceWidth * ScaleFactors[key][1], ScaleFactors[key][2]),
   height |-> evenDimension(sourceHeight * ScaleFactors[key][1], ScaleFactors[key][2])]

\* the four presets in the order the code lists them, before de-duplication
resolutionOpts(sourceWidth, sourceHeight) ==
  << scaleOption(sourceWidth, sourceHeight, "scale_125"),
     [value |-> "source", width |-> sourceWidth, height |-> sourceHeight],
     scaleOption(sourceWidth, sourceHeight, "scale_75"),
     scaleOption(sourceWidth, sourceHeight, "scale_50") >>

uniqueOptionsKeepsLast(opts, unique) ==
  LET keep == {i \in 1..Len(opts) :
                 \A j \in (i + 1)..Len(opts) :
                   <<opts[j].width, opts[j].height>> # <<opts[i].width, opts[i].height>>}
  IN  unique \o [k \in 1..Cardinality(keep) |->
                   opts[CHOOSE i \in keep : Cardinality({j \in keep : j < i}) = k - 1]]

\* the loop over opts: keep an option when no earlier one has its width x height
RECURSIVE uniqueOptions(_, _)
uniqueOptions(opts, unique) ==
  IF opts = <<>> THEN unique
  ELSE LET o == Head(opts)
           seen == {<<unique[i].width, unique[i].height>> : i \in 1..Len(unique)}
       IN  uniqueOptions(Tail(opts),
                         IF <<o.width, o.height>> \in seen THEN unique
                         ELSE Append(unique, o))

buildResolutionOptions(sourceWidth, sourceHeight) ==
  uniqueOptions(resolutionOpts(sourceWidth, sourceHeight), <<>>)

(***************************************************************************)
(* Preset and capability tables (mediaUtils.ts 104-173).                   *)
(***************************************************************************)
\* the presets that carry an amount, by value
FPS_PRESETS == ("60" :> 60) @@ ("30" :> 30) @@ ("24" :> 24)

VIDEO_BITRATE_PRESETS ==
  ("8000" :> 8000) @@ ("6000" :> 6000) @@ ("4000" :> 4000) @@ ("2500" :> 2500)

AUDIO_BITRATE_PRESETS == ("320" :> 320) @@ ("192" :> 192) @@ ("128" :> 128)

FORMAT_OPTIONS ==
  << [value |-> "mp4",  ext |-> <<"m", "p", "4">>],
     [value |-> "mkv",  ext |-> <<"m", "k", "v">>],
     [value |-> "mov",  ext |-> <<"m", "o", "v">>],
     [value |-> "webm", ext |-> <<"w", "e", "b", "m">>],
     [value |-> "avi",  ext |-> <<"a", "v", "i">>],
     [value |-> "flv",  ext |-> <<"f", "l", "v">>],
     [value |-> "gif",  ext |-> <<"g", "i", "f">>] >>

AUDIO_FORMAT_OPTIONS ==
  << [value |-> "mp3",  ext |-> <<"m", "p", "3">>],
     [value |-> "wav",  ext |-> <<"w", "a", "v">>],
     [value |-> "flac", ext |-> <<"f", "l", "a", "c">>],
     [value |-> "m4a",  ext |-> <<"m", "4", "a">>],
     [value |-> "ogg",  ext |-> <<"o", "g", "g">>],
     [value |-> "opus", ext |-> <<"o", "p", "u", "s">>] >>

VIDEO_CODECS_BY_FORMAT ==
  [mp4  |-> <<"libx264", "libx265">>,
   mov  |-> <<"libx264", "libx265", "prores_ks", "mjpeg">>,
   mkv  |-> <<"libx264", "libx265", "libvpx-vp9", "prores_ks", "mjpeg">>,
   webm |-> <<"libvpx-vp9">>,
   avi  |-> <<"libx264", "mjpeg">>,
   flv  |-> <<"libx264">>,
   gif  |-> <<"gif">>]

AUDIO_CODECS_BY_FORMAT ==
  [mp4  |-> <<"aac", "libmp3lame">>,
   mov  |-> <<"aac">>,
   mkv  |-> <<"aac", "libopus", "libvorbis", "libmp3lame", "flac">>,
   webm |-> <<"libopus", "libvorbis">>,
   avi  |-> <<"libmp3lame">>,
   flv  |-> <<"aac">>,
   gif  |-> <<>>,
   mp3  |-> <<"libmp3lame">>,
   wav  |-> <<"pcm_s16le">>,
   flac |-> <<"flac">>,
   m4a  |-> <<"aac">>,
   ogg  |-> <<"libvorbis">>,
   opus |-> <<"libopus">>]

\* ms by which the trim handles are kept apart (handlePointerMove)
stepMs == 100

Range(s) == {s[i] : i \in 1..Len(s)}

getAvailableCodecs(fmt, audioOnly) ==
  IF audioOnly
  THEN IF fmt \in DOMAIN AUDIO_CODECS_BY_FORMAT THEN AUDIO_CODECS_BY_FORMAT[fmt] ELSE <<>>
  ELSE IF fmt \in DOMAIN VIDEO_CODECS_BY_FORMAT THEN VIDEO_CODECS_BY_FORMAT[fmt] ELSE <<>>

(***************************************************************************)
(* Text of numbers: String(n), parseInt(text, 10), parseFloat(text).       *)
(***************************************************************************)
Digits == <<"0", "1", "2", "3", "4", "5", "6", "7", "8", "9">>

IsDigit(c) == c \in Range(Digits)

DigitValue(c) == (CHOOSE i \in 1..10 : Digits[i] = c) - 1

\* String(n) for an integer n >= 0
RECURSIVE String(_)
String(n) == IF n < 10 THEN <<Digits[n + 1]>> ELSE String(n \div 10) \o <<Digits[(n % 10) + 1]>>

\* the length of the run of digits that text starts with
RECURSIVE DigitRun(_)
DigitRun(text) ==
  IF text = <<>> \/ ~IsDigit(Head(text)) THEN 0 ELSE 1 + DigitRun(Tail(text))

\* the value of a sequence of digits
RECURSIVE DigitsValue(_)
DigitsValue(ds) ==
  IF ds = <<>> THEN 0 ELSE 10 * DigitsValue(SubSeq(ds, 1, Len(ds) - 1)) + DigitValue(ds[Len(ds)])

RECURSIVE TrimLeft(_)
TrimLeft(text) == IF text # <<>> /\ Head(text) = " " THEN TrimLeft(Tail(text)) ELSE text

\* parseInt(text, 10): None is NaN
parseInt(text) ==
  LET t    == TrimLeft(text)
      neg  == t # <<>> /\ Head(t) = "-"
      body == IF t # <<>> /\ Head(t) \in {"-", "+"} THEN Tail(t) ELSE t
      n    == DigitRun(body)
  IN  IF n = 0 THEN None
      ELSE Some((IF neg THEN -1 ELSE 1) * DigitsValue(SubSeq(body, 1, n)))

\* parseFloat(text) for decimal text without an exponent, as a fraction
\* <<num, den>>: None is NaN
parseFloat(text) ==
  LET t     == TrimLeft(text)
      neg   == t # <<>> /\ Head(t) = "-"
      body  == IF t # <<>> /\ Head(t) \in {"-", "+"} THEN Tail(t) ELSE t
      n     == DigitRun(body)
      rest  == SubSeq(body, n + 1, Len(body))
      m     == IF rest # <<>> /\ Head(rest) = "." THEN DigitRun(Tail(rest)) ELSE 0
      whole == DigitsValue(SubSeq(body, 1, n))
      frac  == DigitsValue(SubSeq(rest, 2, m + 1))
      den   == 10 ^ m
  IN  IF n = 0 /\ m = 0 THEN None
      ELSE Some(<<(IF neg THEN -1 ELSE 1) * (whole * den + frac), den>>)

(***************************************************************************)
(* The media files of the model and what probing each yields.  The         *)
(* analyze_media command runs in the Rust backend; its result per file is  *)
(* fixed here (probing is idempotent for an immutable file).               *)
(***************************************************************************)
\* a 1920x1080, 30 fps, 5000 kbps video of 120 s
FileVideo == <<"/", "v", "/", "a", ".", "m", "p", "4">>

\* an audio file of 50.4 ms in the root directory, its bitrate unknown
FileShort == <<"/", "c", ".", "m", "p", "3">>

\* a file the probe cannot read
FileBad == <<"/", "v", "/", "x", ".", "m", "k", "v">>

\* a 6x4 video of 2 s whose frame rate and bitrate the probe does not report
FileTiny == <<"/", "v", "/", "t", ".", "m", "p", "4">>

Files == {FileVideo, FileShort, FileBad}

\* the files imported where the quality and output options are exercised
OptionFiles == {FileVideo, FileTiny, FileShort}

MediaInfoOf(us, hasVideo, w, h, f, kbps) ==
  [duration_us |-> us, has_video |-> hasVideo, width |-> w, height |-> h,
   fps |-> f, bitrate_kbps |-> kbps]

\* invoke("analyze_media", {path}): the MediaInfo, or the error it rejects with
analyze_media(path) ==
  CASE path = FileVideo ->
         [ok |-> TRUE,
          info |-> MediaInfoOf(120000000, TRUE, Some(1920), Some(1080), Some(<<30, 1>>), Some(5000))]
    [] path = FileShort ->
         [ok |-> TRUE, info |-> MediaInfoOf(50400, FALSE, None, None, None, None)]
    [] path = FileTiny ->
         [ok |-> TRUE, info |-> MediaInfoOf(2000000, TRUE, Some(6), Some(4), None, None)]
    [] OTHER -> [ok |-> FALSE, err |-> "ffprobe failed"]

\* what the run_conversion command may reject with
EngineErrors == {"ffmpeg exited with code 1"}

\* the folders the output folder dialog may return
Dirs == {<<"/", "o">>}

(***************************************************************************)
(* State of the App component (mediaUtils.ts 250-291): one variable per    *)
(* useState cell, and the calls in flight.                                 *)
(***************************************************************************)
VARIABLES
  selectedFile, advancedMode, mediaInfo, startMs, endMs, loadingInfo,
  conversionRunning, status, lastOutputPath, step, autoOpenExit,
  enableCodecSelection,
  resolutionPreset, customWidth, customHeight, resolutionOptions, sourceResolution,
  fpsPreset, customFps, sourceFps,
  videoBitratePreset, customVideoBitrate, sourceVideoBitrate,
  audioBitratePreset, customAudioBitrate, sourceAudioBitrate,
  outputDir, outputFilename, format, forceAudioOnly, selectedCodec,
  dragging,
  \* the pickMediaFile invocations in flight: waiting for the file dialog or
  \* for analyze_media, each with the !outputDir of its closure
  picks,
  \* the runConversion invocations in flight: waiting for run_conversion, or
  \* for revealItemInDir or close() in autoOpenAndExitIfEnabled
  runs,
  \* the record of the runConversion invocation that returned last, with the
  \* terminal states it reported (None before the first, and once a new
  \* invocation has started)
  lastRun,
  \* the application window is open
  windowOpen,
  \* how many file dialogs pickMediaFile has opened, and how many
  \* run_conversion invocations runConversion has issued, in this session
  picksMade, runsMade

trimVars == <<startMs, endMs, dragging>>

resolutionVars ==
  <<resolutionPreset, customWidth, customHeight, resolutionOptions, sourceResolution>>

rateVars ==
  <<fpsPreset, customFps, sourceFps, videoBitratePreset, customVideoBitrate,
    sourceVideoBitrate, audioBitratePreset, customAudioBitrate, sourceAudioBitrate>>

settingVars == <<advancedMode, autoOpenExit, enableCodecSelection>>

outputVars == <<outputDir, outputFilename, format, forceAudioOnly, selectedCodec>>

fileVars == <<selectedFile, mediaInfo, loadingInfo>>

runVars == <<conversionRunning, lastOutputPath, runs, lastRun>>

vars ==
  <<fileVars, trimVars, resolutionVars, rateVars, settingVars, outputVars, runVars,
    status, step, picks, windowOpen, picksMade, runsMade>>

madeVars == <<picksMade, runsMade>>

(***************************************************************************)
(* Values derived on every render (mediaUtils.ts 321-492), as operators of *)
(* the state they read.                                                    *)
(***************************************************************************)
\* Math.round(mediaInfo.duration_seconds * 1000), or 0 without mediaInfo
durationMsOf(info) == IF info = None THEN 0 ELSE Round(info[1].duration_us, 1000)

durationMs == durationMsOf(mediaInfo)

hasVideoSourceOf(info) == IF info = None THEN FALSE ELSE info[1].has_video

isAudioOnlyOf(info, force) == ~hasVideoSourceOf(info) \/ force

isAudioOnly == isAudioOnlyOf(mediaInfo, forceAudioOnly)

wizardIsAudioOnly == ~hasVideoSourceOf(mediaInfo)

formatOptionsOf(audioOnly) == IF audioOnly THEN AUDIO_FORMAT_OPTIONS ELSE FORMAT_OPTIONS

currentFormatOfFallsToSecond(fmt, audioOnly) ==
  LET opts == formatOptionsOf(audioOnly)
      hits == {i \in 1..Len(opts) : opts[i].value = fmt}
  IN  IF hits = {} THEN opts[2] ELSE opts[CHOOSE i \in hits : \A j \in hits : i <= j]

\* formatOptions.find((f) => f.value === format) ?? formatOptions[0]
currentFormatOf(fmt, audioOnly) ==
  LET opts == formatOptionsOf(audioOnly)
      hits == {i \in 1..Len(opts) : opts[i].value = fmt}
  IN  IF hits = {} THEN opts[1] ELSE opts[CHOOSE i \in hits : \A j \in hits : i <= j]

currentFormat == currentFormatOf(format, isAudioOnly)

\* the resolution memo: the preset's size, or the parsed custom text
resolution ==
  LET hits == {i \in 1..Len(resolutionOptions) :
                 resolutionOptions[i].value = resolutionPreset}
  IN  IF hits = {} \/ resolutionPreset = "custom"
      THEN [width |-> parseInt(customWidth), height |-> parseInt(customHeight)]
      ELSE LET preset == resolutionOptions[CHOOSE i \in hits : \A j \in hits : i <= j]
           IN  [width |-> Some(preset.width), height |-> Some(preset.height)]

fpsValueZeroForNaN ==
  IF fpsPreset = "custom"
  THEN IF parseFloat(customFps) = None THEN Some(<<0, 1>>) ELSE parseFloat(customFps)
  ELSE IF fpsPreset = "source" THEN sourceFps
  ELSE IF fpsPreset \in DOMAIN FPS_PRESETS THEN Some(<<FPS_PRESETS[fpsPreset], 1>>)
  ELSE None

\* fps as a fraction <<num, den>>
fpsValue ==
  IF fpsPreset = "custom" THEN parseFloat(customFps)
  ELSE IF fpsPreset = "source" THEN sourceFps
  ELSE IF fpsPreset \in DOMAIN FPS_PRESETS THEN Some(<<FPS_PRESETS[fpsPreset], 1>>)
  ELSE None

videoBitrateValue ==
  IF videoBitratePreset = "custom" THEN parseInt(customVideoBitrate)
  ELSE IF videoBitratePreset = "source" THEN sourceVideoBitrate
  ELSE IF videoBitratePreset \in DOMAIN VIDEO_BITRATE_PRESETS
       THEN Some(VIDEO_BITRATE_PRESETS[videoBitratePreset])
  ELSE None

audioBitrateValue ==
  IF audioBitratePreset = "custom" THEN parseInt(customAudioBitrate)
  ELSE IF audioBitratePreset = "source" THEN sourceAudioBitrate
  ELSE IF audioBitratePreset \in DOMAIN AUDIO_BITRATE_PRESETS
       THEN Some(AUDIO_BITRATE_PRESETS[audioBitratePreset])
  ELSE None

\* the truthiness of an optional fraction: present and not 0
TruthyFraction(o) == o # None /\ o[1][1] # 0

\* the video bitrate the size estimate works with: scaled by fps / sourceFps
effectiveVideoBitrate ==
  IF isAudioOnly THEN 0
  ELSE IF ~Truthy(videoBitrateValue) THEN 0
  ELSE IF TruthyFraction(sourceFps) /\ TruthyFraction(fpsValue)
       THEN Round(videoBitrateValue[1] * fpsValue[1][1] * sourceFps[1][2],
                  fpsValue[1][2] * sourceFps[1][1])
  ELSE videoBitrateValue[1]

\* the number n / d in lowest terms; <<1, 0>> is Infinity and <<0, 0>> is NaN
Fraction(n, d) ==
  LET RECURSIVE GCD(_, _)
      GCD(a, b) == IF b = 0 THEN a ELSE GCD(b, a % b)
      g == GCD(n, d)
  IN  IF g = 0 THEN <<n, d>> ELSE <<n \div g, d \div g>>

\* the product of two numbers in lowest terms
FracMul(a, b) ==
  LET x == Fraction(a[1], b[2])
      y == Fraction(b[1], a[2])
  IN  <<x[1] * y[1], x[2] * y[2]>>

\* the length of the trimmed clip, in seconds
clipLengthSeconds == Fraction(Max(0, endMs - startMs), 1000)

\* the correction factor of the container
formatSizeMultiplier ==
  IF isAudioOnly
  THEN CASE currentFormat.value = "wav" -> <<19, 5>>
         [] currentFormat.value = "flac" -> <<7, 10>>
         [] currentFormat.value = "opus" -> <<7, 10>>
         [] currentFormat.value = "ogg" -> <<17, 20>>
         [] currentFormat.value = "m4a" -> <<9, 10>>
         [] OTHER -> <<1, 1>>
  ELSE CASE currentFormat.value = "webm" -> <<17, 20>>
         [] currentFormat.value = "mkv" -> <<19, 20>>
         [] currentFormat.value = "mov" -> <<21, 20>>
         [] currentFormat.value = "avi" -> <<23, 20>>
         [] currentFormat.value = "flv" -> <<11, 10>>
         [] currentFormat.value = "gif" -> <<5, 2>>
         [] OTHER -> <<1, 1>>

\* the ratio of the target area to the source area, were it not clamped
resolutionScaleUnclamped ==
  IF /\ ~isAudioOnly
     /\ sourceResolution # None
     /\ Truthy(resolution.width)
     /\ Truthy(resolution.height)
     /\ sourceResolution[1].width > 0
     /\ sourceResolution[1].height > 0
  THEN Fraction(resolution.width[1] * resolution.height[1],
                sourceResolution[1].width * sourceResolution[1].height)
  ELSE <<1, 1>>

\* the ratio of the target area to the source area, kept within [0.2, 1.5]
resolutionScale ==
  IF /\ ~isAudioOnly
     /\ sourceResolution # None
     /\ Truthy(resolution.width)
     /\ Truthy(resolution.height)
     /\ sourceResolution[1].width > 0
     /\ sourceResolution[1].height > 0
  THEN LET baseArea   == sourceResolution[1].width * sourceResolution[1].height
           targetArea == resolution.width[1] * resolution.height[1]
       IN  IF 5 * targetArea < baseArea THEN <<1, 5>>
           ELSE IF 2 * targetArea > 3 * baseArea THEN <<3, 2>>
           ELSE Fraction(targetArea, baseArea)
  ELSE <<1, 1>>

\* the total bitrate, were the audio bitrate scaled with the video bitrate
totalKbpsScalesAudio ==
  LET audio == IF audioBitrateValue = None THEN 0 ELSE audioBitrateValue[1]
  IN  Fraction((effectiveVideoBitrate + audio) * resolutionScale[1], resolutionScale[2])

\* effectiveVideoBitrate * resolutionScale + audioBitrateValue, in kbps
totalKbps ==
  LET audio == IF audioBitrateValue = None THEN 0 ELSE audioBitrateValue[1]
  IN  Fraction(effectiveVideoBitrate * resolutionScale[1] + audio * resolutionScale[2],
               resolutionScale[2])

\* the estimate, were it unknown whenever no video bitrate is in effect
estimatedBytesUnknownWithoutVideo ==
  IF clipLengthSeconds[1] = 0 THEN None
  ELSE IF effectiveVideoBitrate = 0 THEN None
  ELSE Some(FracMul(FracMul(totalKbps, formatSizeMultiplier),
                    FracMul(FracMul(<<1000, 1>>, clipLengthSeconds), <<1, 8>>)))

\* the estimated size in bytes; None where estimatedSizeText returns "--"
estimatedBytes ==
  IF clipLengthSeconds[1] = 0 THEN None
  ELSE IF totalKbps[1] = 0 THEN None
  ELSE Some(FracMul(FracMul(totalKbps, formatSizeMultiplier),
                    FracMul(FracMul(<<1000, 1>>, clipLengthSeconds), <<1, 8>>)))

\* the text of the size estimate; toFixed(x, places) is x.toFixed(places) of
\* a number that is not negative, places being 1 or 2
estimatedSizeText ==
  LET toFixed(x, places) ==
        LET unit   == IF places = 1 THEN 10 ELSE 100
            whole  == x[1] \div x[2]
            rest   == x[1] % x[2]
            shown  == whole * unit + (2 * unit * rest + x[2]) \div (2 * x[2])
            digits == String(shown % unit)
        IN  String(shown \div unit) \o <<".">>
              \o (IF places = 2 /\ Len(digits) = 1 THEN <<"0">> ELSE <<>>) \o digits
  IN  IF estimatedBytes = None THEN <<"-", "-">>
      ELSE LET mb == FracMul(estimatedBytes[1], <<1, 1024 * 1024>>)
               gb == FracMul(mb, <<1, 1024>>)
           IN  IF mb[1] \div mb[2] < 1024 THEN toFixed(mb, 1) \o <<" ", "M", "B">>
               ELSE toFixed(gb, 2) \o <<" ", "G", "B">>

finalOutputPath ==
  LET stripped    == StripExtension(outputFilename)
      base        == IF stripped = <<>> THEN <<"o", "u", "t", "p", "u", "t">> ELSE stripped
      nameWithExt == base \o <<".">> \o currentFormat.ext
  IN  IF outputDir = <<>> THEN nameWithExt ELSE joinPaths(outputDir, nameWithExt)

(***************************************************************************)
(* The two effects that normalise format and selectedCodec after a render  *)
(* (mediaUtils.ts 448-452 and 677-688).  Both run on the values of the     *)
(* render that triggered them, and again after the re-render they cause.   *)
(***************************************************************************)
reconcileCodecKeepsSelection(enable, fmt, audioOnly, codec) ==
  IF ~enable THEN "" ELSE codec

\* the codec reconciliation effect, on the values of one render
reconcileCodec(enable, fmt, audioOnly, codec) ==
  LET list == getAvailableCodecs(fmt, audioOnly)
  IN  IF ~enable THEN ""
      ELSE IF list = <<>> THEN ""
      ELSE IF codec \notin Range(list) THEN list[1]
      ELSE codec

\* format once the format effect has run
syncedFormat(fmt, audioOnly) == currentFormatOf(fmt, audioOnly).value

\* selectedCodec once both effects have settled: the first pass sees the
\* format as the handler left it, the second the synced format
syncedCodec(enable, fmt, audioOnly, codec) ==
  reconcileCodec(enable, syncedFormat(fmt, audioOnly), audioOnly,
                 reconcileCodec(enable, fmt, audioOnly, codec))

(***************************************************************************)
(* What is on screen (renderStepContent and the JSX of App, mediaUtils.ts  *)
(* 1371-1400 and 1520-1563).                                               *)
(***************************************************************************)
isAdvancedView == advancedMode /\ mediaInfo # None /\ step >= 2

RunningPageShown == step = 5

DonePageShown == step = 6

AdvancedPageShown == step \notin {5, 6} /\ isAdvancedView

SettingsPageShown == step = 0

TrimPageShown == step = 2 /\ ~isAdvancedView

QualityPageShown == step = 3 /\ ~isAdvancedView

OutputPageShown == step = 4 /\ ~isAdvancedView

\* case 1 and the default case of the switch
WelcomeShown == step \notin {0, 2, 3, 4, 5, 6} /\ ~isAdvancedView

\* the trim slider is mounted, so sliderRef.current is set
SliderMounted == TrimPageShown \/ AdvancedPageShown

showWizardNav == ~(advancedMode /\ mediaInfo # None)

WizardNavShown == showWizardNav /\ step >= 2 /\ step <= 4

canGoNext ==
  /\ mediaInfo # None
  /\ \/ step = 2 /\ durationMs > 0
     \/ step = 3
     \/ step = 4 /\ outputDir # <<>> /\ outputFilename # <<>>

\* a Run button is on screen: the wizard's at step 4, or the advanced page's
RunButtonShown == (WizardNavShown /\ step = 4) \/ AdvancedPageShown

\* disabled={!mediaInfo || conversionRunning}
RunButtonEnabledAlways == mediaInfo # None

RunButtonEnabled == mediaInfo # None /\ ~conversionRunning

(***************************************************************************)
(* Initial state: the useState defaults, after the effects of the first    *)
(* render (with no mediaInfo the format list is the audio one).            *)
(***************************************************************************)
\* every state cell but sourceResolution and resolutionOptions
InitRest ==
  /\ selectedFile = <<>>
  /\ advancedMode = FALSE
  /\ mediaInfo = None
  /\ startMs = 0
  /\ endMs = 0
  /\ loadingInfo = FALSE
  /\ conversionRunning = FALSE
  /\ status = ""
  /\ lastOutputPath = <<>>
  /\ step = 1
  /\ autoOpenExit = FALSE
  /\ enableCodecSelection = FALSE
  /\ resolutionPreset = "source"
  /\ customWidth = <<>>
  /\ customHeight = <<>>
  /\ fpsPreset = "source"
  /\ customFps = <<>>
  /\ sourceFps = None
  /\ videoBitratePreset = "source"
  /\ customVideoBitrate = <<>>
  /\ sourceVideoBitrate = None
  /\ audioBitratePreset = "192"
  /\ customAudioBitrate = <<>>
  /\ sourceAudioBitrate = None
  /\ outputDir = <<>>
  /\ outputFilename = <<"o", "u", "t", "p", "u", "t">>
  /\ format = syncedFormat("mp4", TRUE)
  /\ forceAudioOnly = FALSE
  /\ selectedCodec = syncedCodec(FALSE, "mp4", TRUE, "")
  /\ dragging = "none"
  /\ picks = <<>>
  /\ runs = <<>>
  /\ lastRun = None
  /\ windowOpen = TRUE
  /\ picksMade = 0
  /\ runsMade = 0

Init ==
  /\ InitRest
  /\ resolutionOptions = <<>>
  /\ sourceResolution = None

\* seq without its i-th element
RemoveAt(seq, i) == SubSeq(seq, 1, i - 1) \o SubSeq(seq, i + 1, Len(seq))

(***************************************************************************)
(* pickMediaFile (mediaUtils.ts 522-584), in its three segments.           *)
(***************************************************************************)
\* the Import button: disabled={loadingInfo}
ImportEnabled == ~loadingInfo

\* click on Import: setStatus(""), then the file dialog opens
PickMediaFile ==
  /\ windowOpen
  /\ WelcomeShown
  /\ ImportEnabled
  /\ picksMade < MaxPicks
  /\ picksMade' = picksMade + 1
  /\ status' = ""
  /\ picks' = Append(picks, [pc |-> "dialog", selected |-> <<>>,
                            noOutputDir |-> outputDir = <<>>])
  /\ UNCHANGED <<fileVars, trimVars, resolutionVars, rateVars, settingVars, outputVars,
                 runVars, step, windowOpen, runsMade>>

\* the dialog is dismissed: if (!selected) return
DialogCancelled(i) ==
  /\ windowOpen
  /\ picks[i].pc = "dialog"
  /\ picks' = RemoveAt(picks, i)
  /\ UNCHANGED <<fileVars, trimVars, resolutionVars, rateVars, settingVars, outputVars,
                 runVars, status, step, windowOpen>>
  /\ UNCHANGED madeVars

\* the dialog returns a path: the file is selected and its probe starts
DialogReturned(i, selected) ==
  /\ windowOpen
  /\ picks[i].pc = "dialog"
  /\ selectedFile' = selected
  /\ mediaInfo' = None
  /\ loadingInfo' = TRUE
  /\ picks' = [picks EXCEPT ![i].pc = "probe", ![i].selected = selected]
  /\ format' = syncedFormat(format, isAudioOnlyOf(None, forceAudioOnly))
  /\ selectedCodec' = syncedCodec(enableCodecSelection, format,
                                  isAudioOnlyOf(None, forceAudioOnly), selectedCodec)
  /\ UNCHANGED <<trimVars, resolutionVars, rateVars, settingVars, outputDir,
                 outputFilename, forceAudioOnly, runVars, status, step, windowOpen>>
  /\ UNCHANGED madeVars

hasVideoSize(info) == info.has_video /\ Truthy(info.width) /\ Truthy(info.height)

\* the end of the trim range a probed file is loaded with
loadedEndMs(info) == Round(info.duration_us, 1000)

\* what the catch block of pickMediaFile leaves in status
probeFailureStatus(err) == "Failed to analyze file: " \o err

\* analyze_media resolved with info: the try block after the await, and finally
ProbeSucceeded(i) ==
  LET selected == picks[i].selected
      r        == analyze_media(selected)
      info     == r.info
      base     == baseNameNoExt(fileNameFromPath(selected))
      rawFmt   == IF info.has_video THEN "mp4" ELSE "mp3"
  IN
  /\ windowOpen
  /\ picks[i].pc = "probe"
  /\ r.ok
  /\ mediaInfo' = Some(info)
  /\ sourceAudioBitrate' = info.bitrate_kbps
  /\ IF Truthy(info.bitrate_kbps)
     THEN /\ customAudioBitrate' = String(info.bitrate_kbps[1])
          /\ audioBitratePreset' = "source"
     ELSE /\ customAudioBitrate' = customAudioBitrate
          /\ audioBitratePreset' = "192"
  /\ IF hasVideoSize(info)
     THEN /\ sourceResolution' = Some([width |-> info.width[1], height |-> info.height[1]])
          /\ resolutionOptions' = buildResolutionOptions(info.width[1], info.height[1])
          /\ resolutionPreset' = "source"
          /\ sourceVideoBitrate' = info.bitrate_kbps
          /\ sourceFps' = info.fps
          /\ fpsPreset' = "source"
          /\ videoBitratePreset' = IF Truthy(info.bitrate_kbps) THEN "source" ELSE "8000"
     ELSE /\ sourceResolution' = sourceResolution
          /\ resolutionOptions' = <<>>
          /\ resolutionPreset' = "source"
          /\ sourceVideoBitrate' = None
          /\ sourceFps' = None
          /\ fpsPreset' = "source"
          /\ videoBitratePreset' = "source"
  /\ startMs' = 0
  /\ endMs' = loadedEndMs(info)
  /\ outputFilename' = (IF base = <<>> THEN <<"o", "u", "t", "p", "u", "t">> ELSE base)
                         \o <<"_", "c", "o", "n", "v", "e", "r", "t", "e", "d">>
  /\ forceAudioOnly' = ~info.has_video
  /\ format' = syncedFormat(rawFmt, isAudioOnlyOf(Some(info), ~info.has_video))
  /\ selectedCodec' = syncedCodec(enableCodecSelection, rawFmt,
                                  isAudioOnlyOf(Some(info), ~info.has_video), selectedCodec)
  /\ outputDir' = IF picks[i].noOutputDir THEN parentDir(selected) ELSE outputDir
  /\ step' = 2
  /\ loadingInfo' = FALSE
  /\ picks' = RemoveAt(picks, i)
  /\ UNCHANGED <<selectedFile, dragging, customWidth, customHeight, customFps,
                 customVideoBitrate, settingVars, runVars, status, windowOpen>>
  /\ UNCHANGED madeVars

\* analyze_media rejected: the catch block, and finally
ProbeFailed(i) ==
  LET r == analyze_media(picks[i].selected)
  IN
  /\ windowOpen
  /\ picks[i].pc = "probe"
  /\ ~r.ok
  /\ status' = probeFailureStatus(r.err)
  /\ loadingInfo' = FALSE
  /\ picks' = RemoveAt(picks, i)
  /\ UNCHANGED <<selectedFile, mediaInfo, trimVars, resolutionVars, rateVars,
                 settingVars, outputVars, runVars, step, windowOpen>>
  /\ UNCHANGED madeVars

(***************************************************************************)
(* The trim slider (mediaUtils.ts 494-520 and 779-815).  Pointer positions *)
(* are clientX - rect.left, in pixels of a track TrackWidth wide.          *)
(***************************************************************************)
PointerPositions == (-1)..(TrackWidth + 1)

\* Math.min(1, Math.max(0, x / rect.width)) * rect.width
ratioPixels(x) == Min(TrackWidth, Max(0, x))

\* Math.round(ratio * durationMs)
pointerMs(x) == Round(ratioPixels(x) * durationMs, TrackWidth)

\* the start handle dragged to ms: Math.max(0, Math.min(ms, endMs - stepMs))
movedStart(ms, end) == Max(0, Min(ms, end - stepMs))

\* the end handle dragged to ms: Math.min(durationMs, Math.max(ms, startMs + stepMs))
movedEnd(ms, start, duration) == Min(duration, Max(ms, start + stepMs))

\* handlePointerMove, were it not to return early for a duration of 0
pointerMoveActsAtZeroDuration(drag) == drag # "none" /\ SliderMounted

\* handlePointerMove does not return early, for the dragging of its closure
pointerMoveActs(drag) == drag # "none" /\ SliderMounted /\ durationMs > 0

\* handlePointerMove(clientX) in a closure whose dragging is drag
handlePointerMove(drag, x) ==
  /\ startMs' = IF pointerMoveActs(drag) /\ drag = "start"
                THEN movedStart(pointerMs(x), endMs) ELSE startMs
  /\ endMs' = IF pointerMoveActs(drag) /\ drag = "end"
              THEN movedEnd(pointerMs(x), startMs, durationMs) ELSE endMs

\* the handle nearer to the pointer: distanceToStart <= distanceToEnd ? "start" : "end"
\* (both distances times TrackWidth, the pointer time being unrounded)
Abs(n) == IF n < 0 THEN -n ELSE n

\* the nearer handle, were the end handle chosen at equal distances
nearerHandleTieToEnd(x) ==
  IF Abs(ratioPixels(x) * durationMs - startMs * TrackWidth)
       < Abs(ratioPixels(x) * durationMs - endMs * TrackWidth)
  THEN "start" ELSE "end"

nearerHandle(x) ==
  IF Abs(ratioPixels(x) * durationMs - startMs * TrackWidth)
       <= Abs(ratioPixels(x) * durationMs - endMs * TrackWidth)
  THEN "start" ELSE "end"

\* pointer-down on the track, were its handlePointerMove call to see the
\* handle it has just selected
TrackPointerDownSeesNewHandle(x) ==
  /\ windowOpen
  /\ SliderMounted
  /\ durationMs > 0
  /\ dragging' = nearerHandle(x)
  /\ handlePointerMove(nearerHandle(x), x)
  /\ UNCHANGED <<fileVars, resolutionVars, rateVars, settingVars, outputVars, runVars,
                 status, step, picks, windowOpen>>
  /\ UNCHANGED madeVars

\* pointer-down on the track: setDragging(nearer), then handlePointerMove
\* of the same render, whose dragging is still the old one
TrackPointerDown(x) ==
  /\ windowOpen
  /\ SliderMounted
  /\ durationMs > 0
  /\ dragging' = nearerHandle(x)
  /\ handlePointerMove(dragging, x)
  /\ UNCHANGED <<fileVars, resolutionVars, rateVars, settingVars, outputVars, runVars,
                 status, step, picks, windowOpen>>
  /\ UNCHANGED madeVars

\* pointer-down on a handle: stopPropagation, setDragging(which)
HandlePointerDown(which) ==
  /\ windowOpen
  /\ SliderMounted
  /\ dragging' = which
  /\ UNCHANGED <<startMs, endMs, fileVars, resolutionVars, rateVars, settingVars,
                 outputVars, runVars, status, step, picks, windowOpen>>
  /\ UNCHANGED madeVars

\* pointermove on the window; the listener is registered while dragging is set
WindowPointerMove(x) ==
  /\ windowOpen
  /\ dragging # "none"
  /\ handlePointerMove(dragging, x)
  /\ UNCHANGED <<dragging, fileVars, resolutionVars, rateVars, settingVars, outputVars,
                 runVars, status, step, picks, windowOpen>>
  /\ UNCHANGED madeVars

\* pointerup on the window: setDragging(null)
WindowPointerUp ==
  /\ windowOpen
  /\ dragging # "none"
  /\ dragging' = "none"
  /\ UNCHANGED <<startMs, endMs, fileVars, resolutionVars, rateVars, settingVars,
                 outputVars, runVars, status, step, picks, windowOpen>>
  /\ UNCHANGED madeVars

(***************************************************************************)
(* Navigation and settings (mediaUtils.ts 600-648, 1282-1291, 1014-1022,   *)
(* 1486-1496, 1520-1552).                                                  *)
(***************************************************************************)
OpenSettings ==
  /\ windowOpen
  /\ step = 1
  /\ step' = 0
  /\ UNCHANGED <<fileVars, trimVars, resolutionVars, rateVars, settingVars, outputVars,
                 runVars, status, picks, windowOpen>>
  /\ UNCHANGED madeVars

CloseSettings ==
  /\ windowOpen
  /\ step = 0
  /\ step' = 1
  /\ UNCHANGED <<fileVars, trimVars, resolutionVars, rateVars, settingVars, outputVars,
                 runVars, status, picks, windowOpen>>
  /\ UNCHANGED madeVars

updateAdvancedMode ==
  /\ windowOpen
  /\ SettingsPageShown
  /\ advancedMode' = ~advancedMode
  /\ UNCHANGED <<autoOpenExit, enableCodecSelection, fileVars, trimVars, resolutionVars,
                 rateVars, outputVars, runVars, status, step, picks, windowOpen>>
  /\ UNCHANGED madeVars

updateAutoOpenExit ==
  /\ windowOpen
  /\ SettingsPageShown
  /\ autoOpenExit' = ~autoOpenExit
  /\ UNCHANGED <<advancedMode, enableCodecSelection, fileVars, trimVars, resolutionVars,
                 rateVars, outputVars, runVars, status, step, picks, windowOpen>>
  /\ UNCHANGED madeVars

updateEnableCodecSelection ==
  /\ windowOpen
  /\ SettingsPageShown
  /\ enableCodecSelection' = ~enableCodecSelection
  /\ selectedCodec' = syncedCodec(~enableCodecSelection, format, isAudioOnly,
                                  IF enableCodecSelection THEN "" ELSE selectedCodec)
  /\ UNCHANGED <<advancedMode, autoOpenExit, fileVars, trimVars, resolutionVars, rateVars,
                 outputDir, outputFilename, format, forceAudioOnly, runVars, status, step,
                 picks, windowOpen>>
  /\ UNCHANGED madeVars

\* the step Back leads to
backStep == IF wizardIsAudioOnly /\ step = 4 THEN 2 ELSE step - 1

\* the step Next leads to, were the quality step never skipped
nextStepNeverSkips == step + 1

\* the step Next leads to
nextStep == IF wizardIsAudioOnly /\ step = 2 THEN 4 ELSE step + 1

WizardBack ==
  /\ windowOpen
  /\ WizardNavShown
  /\ step' = backStep
  /\ UNCHANGED <<fileVars, trimVars, resolutionVars, rateVars, settingVars, outputVars,
                 runVars, status, picks, windowOpen>>
  /\ UNCHANGED madeVars

WizardNext ==
  /\ windowOpen
  /\ WizardNavShown
  /\ step < 4
  /\ canGoNext
  /\ step' = nextStep
  /\ UNCHANGED <<fileVars, trimVars, resolutionVars, rateVars, settingVars, outputVars,
                 runVars, status, picks, windowOpen>>
  /\ UNCHANGED madeVars

\* Back on the advanced page and "Convert another file" on the done page
StartOver ==
  /\ windowOpen
  /\ AdvancedPageShown \/ DonePageShown
  /\ selectedFile' = <<>>
  /\ mediaInfo' = None
  /\ status' = ""
  /\ lastOutputPath' = <<>>
  /\ step' = 1
  /\ format' = syncedFormat(format, isAudioOnlyOf(None, forceAudioOnly))
  /\ selectedCodec' = syncedCodec(enableCodecSelection, format,
                                  isAudioOnlyOf(None, forceAudioOnly), selectedCodec)
  /\ UNCHANGED <<loadingInfo, trimVars, resolutionVars, rateVars, settingVars, outputDir,
                 outputFilename, forceAudioOnly, conversionRunning, runs, lastRun, picks,
                 windowOpen>>
  /\ UNCHANGED madeVars

\* the folder dialog of pickOutputDir returns dir
pickOutputDir(dir) ==
  /\ windowOpen
  /\ OutputPageShown \/ AdvancedPageShown
  /\ outputDir' = dir
  /\ UNCHANGED <<fileVars, trimVars, resolutionVars, rateVars, settingVars,
                 outputFilename, format, forceAudioOnly, selectedCodec, runVars, status,
                 step, picks, windowOpen>>
  /\ UNCHANGED madeVars

\* the window's close control (handleClose), or Exit on the done page
handleClose ==
  /\ windowOpen
  /\ windowOpen' = FALSE
  /\ UNCHANGED <<fileVars, trimVars, resolutionVars, rateVars, settingVars, outputVars,
                 runVars, status, step, picks>>
  /\ UNCHANGED madeVars

(***************************************************************************)
(* runConversion (mediaUtils.ts 690-734) and autoOpenAndExitIfEnabled      *)
(* (663-675).                                                              *)
(***************************************************************************)
requestedVideoBitrateScaled == Some(effectiveVideoBitrate)

requestedVideoCodecInAnyMode ==
  IF enableCodecSelection /\ selectedCodec # "" THEN Some(selectedCodec) ELSE None

\* video_codec: enableCodecSelection && !isAudioOnly && selectedCodec ? selectedCodec : null
requestedVideoCodec ==
  IF enableCodecSelection /\ ~isAudioOnly /\ selectedCodec # ""
  THEN Some(selectedCodec) ELSE None

\* audio_codec: enableCodecSelection && isAudioOnly && selectedCodec ? selectedCodec : null
requestedAudioCodec ==
  IF enableCodecSelection /\ isAudioOnly /\ selectedCodec # ""
  THEN Some(selectedCodec) ELSE None

\* video_bitrate_kbps: videoBitrateValue ?? null
requestedVideoBitrate == videoBitrateValue

\* the options object handed to invoke("run_conversion", ...)
transcodeOptions ==
  [input_path         |-> selectedFile,
   output_path        |-> finalOutputPath,
   start_ms           |-> Round(startMs, 1),
   end_ms             |-> Round(endMs, 1),
   width              |-> resolution.width,
   height             |-> resolution.height,
   fps                |-> fpsValue,
   video_bitrate_kbps |-> requestedVideoBitrate,
   audio_bitrate_kbps |-> audioBitrateValue,
   format             |-> currentFormat.value,
   is_audio_only      |-> isAudioOnly,
   video_codec        |-> requestedVideoCodec,
   audio_codec        |-> requestedAudioCodec]

runConversionAcceptsNoDir == selectedFile # <<>> /\ mediaInfo # None

\* neither early return of runConversion is taken
runConversionAccepts == selectedFile # <<>> /\ mediaInfo # None /\ outputDir # <<>>

\* the status an early return leaves
rejectionStatus ==
  IF selectedFile = <<>> \/ mediaInfo = None THEN "Pick a media file first."
  ELSE "Choose an output folder."

\* Run is clicked and runConversion returns early
RunRejected ==
  /\ windowOpen
  /\ RunButtonShown
  /\ RunButtonEnabled
  /\ ~runConversionAccepts
  /\ status' = rejectionStatus
  /\ UNCHANGED <<fileVars, trimVars, resolutionVars, rateVars, settingVars, outputVars,
                 runVars, step, picks, windowOpen>>
  /\ UNCHANGED madeVars

\* Run is clicked and runConversion invokes run_conversion
RunStarted ==
  /\ windowOpen
  /\ RunButtonShown
  /\ RunButtonEnabled
  /\ runConversionAccepts
  /\ runsMade < MaxRuns
  /\ runsMade' = runsMade + 1
  /\ lastOutputPath' = finalOutputPath
  /\ conversionRunning' = TRUE
  /\ status' = "Running conversion..."
  /\ step' = 5
  /\ runs' = Append(runs, [pc |-> "engine", options |-> transcodeOptions,
                           autoOpenExit |-> autoOpenExit, reported |-> <<>>,
                           cancelAsked |-> FALSE])
  /\ lastRun' = None
  /\ UNCHANGED <<fileVars, trimVars, resolutionVars, rateVars, settingVars, outputVars,
                 picks, windowOpen, picksMade>>

\* the user asks to cancel the conversion in progress: the running page has
\* no control for it and runConversion no path, so the request changes
\* nothing of the program's state; it is recorded with the invocation
RequestCancel(i) ==
  /\ windowOpen
  /\ RunningPageShown
  /\ runs[i].pc = "engine"
  /\ ~runs[i].cancelAsked
  /\ runs' = [runs EXCEPT ![i].cancelAsked = TRUE]
  /\ UNCHANGED <<fileVars, trimVars, resolutionVars, rateVars, settingVars, outputVars,
                 conversionRunning, lastOutputPath, lastRun, status, step, picks,
                 windowOpen>>
  /\ UNCHANGED madeVars

\* a terminal state as runConversion reports it: what it writes to step and status
Terminal(kind, st, msg) == [kind |-> kind, step |-> st, status |-> msg]

\* the record kept of an invocation that has returned
Returned(run) == Some([reported |-> run.reported])

runningAfterReturnStuck == TRUE

\* the finally block of runConversion: setConversionRunning(false)
runningAfterReturn == FALSE

\* the step the catch block of runConversion returns to
failureStep == 4

\* the try block after the await: setStatus(""), setStep(6), then
\* autoOpenAndExitIfEnabled, which returns at once unless autoOpenExit was set
EngineResolved(i) ==
  LET run == [runs[i] EXCEPT !.reported = Append(@, Terminal("Succeeded", 6, ""))]
  IN
  /\ windowOpen
  /\ runs[i].pc = "engine"
  /\ status' = ""
  /\ step' = 6
  /\ IF runs[i].autoOpenExit
     THEN /\ runs' = [runs EXCEPT ![i] = [run EXCEPT !.pc = "reveal"]]
          /\ UNCHANGED <<conversionRunning, lastRun>>
     ELSE /\ runs' = RemoveAt(runs, i)
          /\ conversionRunning' = runningAfterReturn
          /\ lastRun' = Returned(run)
  /\ UNCHANGED <<fileVars, trimVars, resolutionVars, rateVars, settingVars, outputVars,
                 lastOutputPath, picks, windowOpen>>
  /\ UNCHANGED madeVars

\* the catch block, then finally
EngineRejected(i, err) ==
  LET msg == "Conversion failed: " \o err
      run == [runs[i] EXCEPT !.reported = Append(@, Terminal("Failed", failureStep, msg))]
  IN
  /\ windowOpen
  /\ runs[i].pc = "engine"
  /\ status' = msg
  /\ step' = failureStep
  /\ runs' = RemoveAt(runs, i)
  /\ conversionRunning' = runningAfterReturn
  /\ lastRun' = Returned(run)
  /\ UNCHANGED <<fileVars, trimVars, resolutionVars, rateVars, settingVars, outputVars,
                 lastOutputPath, picks, windowOpen>>
  /\ UNCHANGED madeVars

\* revealItemInDir settles (a rejection is only logged); close() is called
RevealSettled(i) ==
  /\ windowOpen
  /\ runs[i].pc = "reveal"
  /\ runs' = [runs EXCEPT ![i].pc = "close"]
  /\ UNCHANGED <<fileVars, trimVars, resolutionVars, rateVars, settingVars, outputVars,
                 conversionRunning, lastOutputPath, lastRun, status, step, picks,
                 windowOpen>>
  /\ UNCHANGED madeVars

\* close() closes the window: the application exits
WindowClosedAfterRun(i) ==
  /\ windowOpen
  /\ runs[i].pc = "close"
  /\ windowOpen' = FALSE
  /\ UNCHANGED <<fileVars, trimVars, resolutionVars, rateVars, settingVars, outputVars,
                 runVars, status, step, picks>>
  /\ UNCHANGED madeVars

\* close() rejects (logged): runConversion reaches its finally block
CloseRejected(i) ==
  /\ windowOpen
  /\ runs[i].pc = "close"
  /\ runs' = RemoveAt(runs, i)
  /\ conversionRunning' = runningAfterReturn
  /\ lastRun' = Returned(runs[i])
  /\ UNCHANGED <<fileVars, trimVars, resolutionVars, rateVars, settingVars, outputVars,
                 lastOutputPath, status, step, picks, windowOpen>>
  /\ UNCHANGED madeVars

(***************************************************************************)
(* The quality controls (renderQualityPage, mediaUtils.ts 820-920, and the *)
(* same controls of renderAdvancedPage, 1186-1279).  The three selects are *)
(* disabled in audio-only mode; a custom field is rendered while its       *)
(* preset is "custom".  The fields are <input type="number">: their value  *)
(* is the text of a number, or empty for anything else typed.              *)
(***************************************************************************)
\* the quality selects are on screen and enabled
QualitySelectsEnabled == (QualityPageShown \/ AdvancedPageShown) /\ ~isAudioOnly

\* the custom fields can be on screen: the quality page, or the video block
\* of the advanced page
CustomFieldsMounted ==
  QualityPageShown \/ (AdvancedPageShown /\ hasVideoSourceOf(mediaInfo))

\* the options of the resolution select
resolutionChoices ==
  {resolutionOptions[k].value : k \in 1..Len(resolutionOptions)} \cup {"custom"}

\* what is typed into the custom width and height fields
SizeTexts == {<<>>, <<"0">>, <<"6", "4", "0">>}

setResolutionPreset(value) ==
  /\ windowOpen
  /\ QualitySelectsEnabled
  /\ value \in resolutionChoices
  /\ resolutionPreset' = value
  /\ UNCHANGED <<customWidth, customHeight, resolutionOptions, sourceResolution, fileVars,
                 trimVars, rateVars, settingVars, outputVars, runVars, status, step, picks,
                 windowOpen, madeVars>>

setCustomWidth(text) ==
  /\ windowOpen
  /\ CustomFieldsMounted
  /\ resolutionPreset = "custom"
  /\ customWidth' = text
  /\ UNCHANGED <<resolutionPreset, customHeight, resolutionOptions, sourceResolution,
                 fileVars, trimVars, rateVars, settingVars, outputVars, runVars, status,
                 step, picks, windowOpen, madeVars>>

setCustomHeight(text) ==
  /\ windowOpen
  /\ CustomFieldsMounted
  /\ resolutionPreset = "custom"
  /\ customHeight' = text
  /\ UNCHANGED <<resolutionPreset, customWidth, resolutionOptions, sourceResolution,
                 fileVars, trimVars, rateVars, settingVars, outputVars, runVars, status,
                 step, picks, windowOpen, madeVars>>

\* the options of the fps select (fpsOptions): Source only when sourceFps is
\* known and not 0
fpsChoices ==
  (IF TruthyFraction(sourceFps) THEN {"source"} ELSE {}) \cup DOMAIN FPS_PRESETS \cup {"custom"}

\* the options of the video bitrate select (videoBitrateOptions)
videoBitrateChoices == {"source"} \cup DOMAIN VIDEO_BITRATE_PRESETS \cup {"custom"}

\* what is typed into the custom fps field
FpsTexts == {<<>>, <<"1", "2", ".", "5">>}

\* what is typed into the custom video bitrate field
BitrateTexts == {<<>>, <<"9", "0", "0">>}

setFpsPreset(value) ==
  /\ windowOpen
  /\ QualitySelectsEnabled
  /\ value \in fpsChoices
  /\ fpsPreset' = value
  /\ UNCHANGED <<customFps, sourceFps, videoBitratePreset, customVideoBitrate,
                 sourceVideoBitrate, audioBitratePreset, customAudioBitrate,
                 sourceAudioBitrate, fileVars, trimVars, resolutionVars, settingVars,
                 outputVars, runVars, status, step, picks, windowOpen, madeVars>>

setCustomFps(text) ==
  /\ windowOpen
  /\ CustomFieldsMounted
  /\ fpsPreset = "custom"
  /\ customFps' = text
  /\ UNCHANGED <<fpsPreset, sourceFps, videoBitratePreset, customVideoBitrate,
                 sourceVideoBitrate, audioBitratePreset, customAudioBitrate,
                 sourceAudioBitrate, fileVars, trimVars, resolutionVars, settingVars,
                 outputVars, runVars, status, step, picks, windowOpen, madeVars>>

setVideoBitratePreset(value) ==
  /\ windowOpen
  /\ QualitySelectsEnabled
  /\ value \in videoBitrateChoices
  /\ videoBitratePreset' = value
  /\ UNCHANGED <<fpsPreset, customFps, sourceFps, customVideoBitrate,
                 sourceVideoBitrate, audioBitratePreset, customAudioBitrate,
                 sourceAudioBitrate, fileVars, trimVars, resolutionVars, settingVars,
                 outputVars, runVars, status, step, picks, windowOpen, madeVars>>

setCustomVideoBitrate(text) ==
  /\ windowOpen
  /\ CustomFieldsMounted
  /\ videoBitratePreset = "custom"
  /\ customVideoBitrate' = text
  /\ UNCHANGED <<fpsPreset, customFps, sourceFps, videoBitratePreset,
                 sourceVideoBitrate, audioBitratePreset, customAudioBitrate,
                 sourceAudioBitrate, fileVars, trimVars, resolutionVars, settingVars,
                 outputVars, runVars, status, step, picks, windowOpen, madeVars>>

\* the values of a list of containers
formatValues(opts) == {opts[k].value : k \in 1..Len(opts)}

\* the format updateForceAudioOnly(value) leaves before the effects run
forcedFormat(value) ==
  IF value
  THEN IF format \notin formatValues(AUDIO_FORMAT_OPTIONS)
       THEN AUDIO_FORMAT_OPTIONS[1].value ELSE format
  ELSE IF hasVideoSourceOf(mediaInfo) /\ format \notin formatValues(FORMAT_OPTIONS)
       THEN "mp4" ELSE format

\* the "Extract audio only" checkbox, rendered for a source with video
updateForceAudioOnly ==
  LET value == ~forceAudioOnly
  IN
  /\ windowOpen
  /\ QualityPageShown \/ AdvancedPageShown
  /\ hasVideoSourceOf(mediaInfo)
  /\ forceAudioOnly' = value
  /\ format' = syncedFormat(forcedFormat(value), isAudioOnlyOf(mediaInfo, value))
  /\ selectedCodec' = syncedCodec(enableCodecSelection, forcedFormat(value),
                                  isAudioOnlyOf(mediaInfo, value), selectedCodec)
  /\ UNCHANGED <<outputDir, outputFilename, fileVars, trimVars, resolutionVars, rateVars,
                 settingVars, runVars, status, step, picks, windowOpen, madeVars>>

(***************************************************************************)
(* The output controls (renderOutputPage, mediaUtils.ts 922-990, and the   *)
(* same controls of renderAdvancedPage, 1085-1125).                        *)
(***************************************************************************)
OutputControlsShown == OutputPageShown \/ AdvancedPageShown

\* the format select lists formatOptions
setFormat(value) ==
  /\ windowOpen
  /\ OutputControlsShown
  /\ value \in formatValues(formatOptionsOf(isAudioOnly))
  /\ format' = syncedFormat(value, isAudioOnly)
  /\ selectedCodec' = syncedCodec(enableCodecSelection, value, isAudioOnly, selectedCodec)
  /\ UNCHANGED <<outputDir, outputFilename, forceAudioOnly, fileVars, trimVars,
                 resolutionVars, rateVars, settingVars, runVars, status, step, picks,
                 windowOpen, madeVars>>

\* the codecs the codec select lists
codecOptions == getAvailableCodecs(currentFormat.value, isAudioOnly)

\* the codec select: rendered with codec selection enabled,
\* disabled={!mediaInfo || codecOptions.length <= 1}
setSelectedCodec(codec) ==
  /\ windowOpen
  /\ OutputControlsShown
  /\ enableCodecSelection
  /\ mediaInfo # None
  /\ Len(codecOptions) > 1
  /\ codec \in Range(codecOptions)
  /\ selectedCodec' = syncedCodec(enableCodecSelection, format, isAudioOnly, codec)
  /\ UNCHANGED <<outputDir, outputFilename, format, forceAudioOnly, fileVars, trimVars,
                 resolutionVars, rateVars, settingVars, runVars, status, step, picks,
                 windowOpen, madeVars>>

\* what is typed into the filename field
FilenameTexts ==
  { <<>>, <<"a", ".", "b">>, <<"a", ".">>, <<"a", ".", "b", ".", "c">>,
    <<"a", ".", "b", "/", "c">> }

\* the containers chosen where the output path is exercised
OutputFormats == {"mkv", "wav"}

\* the folders the output folder dialog returns where the output path is
\* exercised
OutputFolders == { <<"/", "o">>, <<"/", "o", "/">>, <<"C", ":", "\\", "o">> }

\* the filename field: the text typed loses its extension
setOutputFilename(text) ==
  /\ windowOpen
  /\ OutputControlsShown
  /\ outputFilename' = StripExtension(text)
  /\ UNCHANGED <<outputDir, format, forceAudioOnly, selectedCodec, fileVars, trimVars,
                 resolutionVars, rateVars, settingVars, runVars, status, step, picks,
                 windowOpen, madeVars>>

(***************************************************************************)
(* The next-state relation.  The window's close control and the codec      *)
(* selection setting are not part of it: a closed window has no handlers   *)
(* left to run, and enableCodecSelection stays at its default.             *)
(***************************************************************************)
Next ==
  \/ PickMediaFile
  \/ \E i \in 1..Len(picks) : DialogCancelled(i)
  \/ \E i \in 1..Len(picks), f \in Files : DialogReturned(i, f)
  \/ \E i \in 1..Len(picks) : ProbeSucceeded(i)
  \/ \E i \in 1..Len(picks) : ProbeFailed(i)
  \/ \E x \in PointerPositions : TrackPointerDown(x)
  \/ \E which \in {"start", "end"} : HandlePointerDown(which)
  \/ \E x \in PointerPositions : WindowPointerMove(x)
  \/ WindowPointerUp
  \/ OpenSettings
  \/ CloseSettings
  \/ updateAdvancedMode
  \/ updateAutoOpenExit
  \/ WizardBack
  \/ WizardNext
  \/ StartOver
  \/ \E dir \in Dirs : pickOutputDir(dir)
  \/ RunRejected
  \/ RunStarted
  \/ \E i \in 1..Len(runs) : RequestCancel(i)
  \/ \E i \in 1..Len(runs) : EngineResolved(i)
  \/ \E i \in 1..Len(runs), err \in EngineErrors : EngineRejected(i, err)
  \/ \E i \in 1..Len(runs) : RevealSettled(i)
  \/ \E i \in 1..Len(runs) : WindowClosedAfterRun(i)
  \/ \E i \in 1..Len(runs) : CloseRejected(i)

Spec == Init /\ [][Next]_vars

(***************************************************************************)
(* buildResolutionOptions on its own: a probe reports a video of any size  *)
(* from 1x1 to MaxDim x MaxDim, and the success branch of pickMediaFile    *)
(* (mediaUtils.ts 547-549) stores the size and the presets built from it.  *)
(***************************************************************************)
InitRes ==
  /\ InitRest
  /\ resolutionOptions = <<>>
  /\ \E w \in 1..MaxDim, h \in 1..MaxDim :
       sourceResolution = Some([width |-> w, height |-> h])

setResolutionOptions ==
  /\ resolutionOptions = <<>>
  /\ resolutionOptions' =
       buildResolutionOptions(sourceResolution[1].width, sourceResolution[1].height)
  /\ UNCHANGED <<fileVars, trimVars, resolutionPreset, customWidth, customHeight,
                 sourceResolution, rateVars, settingVars, outputVars, runVars, status,
                 step, picks, windowOpen, madeVars>>

NextRes == setResolutionOptions

SpecRes == InitRes /\ [][NextRes]_vars

(***************************************************************************)
(* The target size: files are imported, the wizard is walked, a resolution *)
(* preset is chosen or a custom size typed, and a conversion is started.   *)
(***************************************************************************)
NextResolution ==
  \/ PickMediaFile
  \/ \E i \in 1..Len(picks), f \in OptionFiles : DialogReturned(i, f)
  \/ \E i \in 1..Len(picks) : ProbeSucceeded(i)
  \/ WizardBack
  \/ WizardNext
  \/ updateForceAudioOnly
  \/ \E value \in resolutionChoices : setResolutionPreset(value)
  \/ \E text \in SizeTexts : setCustomWidth(text)
  \/ \E text \in SizeTexts : setCustomHeight(text)
  \/ RunStarted

SpecResolution == Init /\ [][NextResolution]_vars

(***************************************************************************)
(* Frame rate and video bitrate: files are imported, the wizard is walked, *)
(* the two presets are chosen or custom values typed, and a conversion is  *)
(* started.                                                                *)
(***************************************************************************)
NextRate ==
  \/ PickMediaFile
  \/ \E i \in 1..Len(picks), f \in {FileVideo, FileTiny} : DialogReturned(i, f)
  \/ \E i \in 1..Len(picks) : ProbeSucceeded(i)
  \/ WizardNext
  \/ \E value \in fpsChoices : setFpsPreset(value)
  \/ \E text \in FpsTexts : setCustomFps(text)
  \/ \E value \in videoBitrateChoices : setVideoBitratePreset(value)
  \/ \E text \in BitrateTexts : setCustomVideoBitrate(text)
  \/ RunStarted

SpecRate == Init /\ [][NextRate]_vars

(***************************************************************************)
(* Container and codec: codec selection is switched on and off in the      *)
(* settings, files are imported, the wizard is walked, audio-only is       *)
(* toggled, a container and a codec are chosen, and a conversion is        *)
(* started.                                                                *)
(***************************************************************************)
NextFormat ==
  \/ PickMediaFile
  \/ \E i \in 1..Len(picks), f \in OptionFiles : DialogReturned(i, f)
  \/ \E i \in 1..Len(picks) : ProbeSucceeded(i)
  \/ OpenSettings
  \/ CloseSettings
  \/ updateEnableCodecSelection
  \/ WizardBack
  \/ WizardNext
  \/ updateForceAudioOnly
  \/ \E value \in formatValues(FORMAT_OPTIONS \o AUDIO_FORMAT_OPTIONS) : setFormat(value)
  \/ \E codec \in Range(codecOptions) : setSelectedCodec(codec)
  \/ RunStarted

SpecFormat == Init /\ [][NextFormat]_vars

(***************************************************************************)
(* The output path: files are imported, the wizard is walked, a filename   *)
(* is typed, a folder and a container are chosen, and a conversion is      *)
(* started.                                                                *)
(***************************************************************************)
NextOutput ==
  \/ PickMediaFile
  \/ \E i \in 1..Len(picks), f \in {FileVideo, FileShort} : DialogReturned(i, f)
  \/ \E i \in 1..Len(picks) : ProbeSucceeded(i)
  \/ WizardBack
  \/ WizardNext
  \/ \E text \in FilenameTexts : setOutputFilename(text)
  \/ \E dir \in OutputFolders : pickOutputDir(dir)
  \/ \E value \in OutputFormats : setFormat(value)
  \/ RunRejected
  \/ RunStarted

SpecOutput == Init /\ [][NextOutput]_vars

(***************************************************************************)
(* The size estimate: files are imported, the wizard is walked, the clip   *)
(* is trimmed, resolution, frame rate, video bitrate and container are     *)
(* chosen, audio-only is toggled, and a conversion is requested.  One file *)
(* is imported in a session.                                               *)
(***************************************************************************)
NextEstimate ==
  \/ picksMade = 0 /\ PickMediaFile
  \/ \E i \in 1..Len(picks), f \in OptionFiles : DialogReturned(i, f)
  \/ \E i \in 1..Len(picks) : ProbeSucceeded(i)
  \/ WizardNext
  \/ \E x \in {0, TrackWidth} : TrackPointerDown(x)
  \/ \E x \in {0, TrackWidth} : WindowPointerMove(x)
  \/ updateForceAudioOnly
  \/ \E value \in resolutionChoices : setResolutionPreset(value)
  \/ setCustomWidth(<<"6", "4", "0">>)
  \/ setCustomHeight(<<"6", "4", "0">>)
  \/ \E value \in {"source", "60", "24"} : setFpsPreset(value)
  \/ \E value \in {"source", "4000"} : setVideoBitratePreset(value)
  \/ \E value \in {"mp4", "gif", "mp3", "wav"} : setFormat(value)
  \/ RunRejected
  \/ RunStarted

SpecEstimate == Init /\ [][NextEstimate]_vars

(***************************************************************************)
(* The size estimate on its own, for the 1920x1080 source: the file has    *)
(* been imported and the quality page is open; the audio bitrate is any    *)
(* entry of AUDIO_BITRATE_PRESETS that audioBitrateValue resolves          *)
(* (mediaUtils.ts 385-396) and the clip any of a few trim ranges; the      *)
(* resolution, frame rate and video bitrate are then chosen.               *)
(***************************************************************************)
InitExample ==
  LET info == analyze_media(FileVideo).info IN
  /\ selectedFile = FileVideo
  /\ advancedMode = FALSE
  /\ mediaInfo = Some(info)
  /\ startMs \in {0, 30000}
  /\ endMs \in {60000, 90000, 120000}
  /\ loadingInfo = FALSE
  /\ conversionRunning = FALSE
  /\ status = ""
  /\ lastOutputPath = <<>>
  /\ step = 3
  /\ autoOpenExit = FALSE
  /\ enableCodecSelection = FALSE
  /\ resolutionPreset = "source"
  /\ customWidth = <<>>
  /\ customHeight = <<>>
  /\ resolutionOptions = buildResolutionOptions(info.width[1], info.height[1])
  /\ sourceResolution = Some([width |-> info.width[1], height |-> info.height[1]])
  /\ fpsPreset = "source"
  /\ customFps = <<>>
  /\ sourceFps = info.fps
  /\ videoBitratePreset = "source"
  /\ customVideoBitrate = <<>>
  /\ sourceVideoBitrate = info.bitrate_kbps
  /\ audioBitratePreset \in {"source"} \cup DOMAIN AUDIO_BITRATE_PRESETS
  /\ customAudioBitrate = String(info.bitrate_kbps[1])
  /\ sourceAudioBitrate = info.bitrate_kbps
  /\ outputDir = parentDir(FileVideo)
  /\ outputFilename = baseNameNoExt(fileNameFromPath(FileVideo))
                        \o <<"_", "c", "o", "n", "v", "e", "r", "t", "e", "d">>
  /\ format = syncedFormat("mp4", FALSE)
  /\ forceAudioOnly = FALSE
  /\ selectedCodec = syncedCodec(FALSE, "mp4", FALSE, "")
  /\ dragging = "none"
  /\ picks = <<>>
  /\ runs = <<>>
  /\ lastRun = None
  /\ windowOpen = TRUE
  /\ picksMade = 1
  /\ runsMade = 0

NextExample ==
  \/ \E value \in resolutionChoices : setResolutionPreset(value)
  \/ \E value \in fpsChoices : setFpsPreset(value)
  \/ \E value \in videoBitrateChoices : setVideoBitratePreset(value)

SpecExample == InitExample /\ [][NextExample]_vars

(***************************************************************************)
(* Trim range (C1, C2).                                                    *)
(***************************************************************************)
\* C1: in every state from file load onward (mediaInfo present), whatever the
\* loaded duration and the pointer events handled so far,
\* 0 <= startMs, startMs <= endMs - 100 and endMs <= durationMs.
C1_TrimInvariant ==
  mediaInfo # None =>
    /\ 0 <= startMs
    /\ startMs <= endMs - 100
    /\ endMs <= durationMs

\* C2: every request runConversion issues carries start_ms = startMs and
\* end_ms = endMs of the state Run was clicked in, with 0 <= start_ms and
\* start_ms + 100 <= end_ms <= durationMs, in wizard and advanced mode alike.
C2_RequestCarriesTrimRange ==
  [][Len(runs') > Len(runs) =>
       LET options == runs'[Len(runs')].options
       IN  /\ options.start_ms = startMs
           /\ options.end_ms = endMs
           /\ 0 <= options.start_ms
           /\ options.start_ms + 100 <= options.end_ms
           /\ options.end_ms <= durationMs]_vars

(***************************************************************************)
(* The life of a runConversion invocation (C3 .. C7).                      *)
(***************************************************************************)
\* C3: an invocation whose engine call has settled has reported exactly one
\* terminal state, success (step 6, status "") or failure (step 4, status
\* "Conversion failed: ..."); one still waiting for the engine has reported
\* none; and once an invocation has returned, conversionRunning is false.
C3_OneTerminalPerRun ==
  /\ \A i \in 1..Len(runs) :
       IF runs[i].pc = "engine"
       THEN runs[i].reported = <<>>
       ELSE runs[i].reported = <<[kind |-> "Succeeded", step |-> 6, status |-> ""]>>
  /\ lastRun # None =>
       /\ Len(lastRun[1].reported) = 1
       /\ \/ lastRun[1].reported[1] = [kind |-> "Succeeded", step |-> 6, status |-> ""]
          \/ /\ lastRun[1].reported[1].kind = "Failed"
             /\ lastRun[1].reported[1].step = 4
             /\ \E err \in EngineErrors :
                  lastRun[1].reported[1].status = "Conversion failed: " \o err
       /\ ~conversionRunning

\* a conversion has failed and left the application at step 4 with its text
C3_FailedRunReturned ==
  /\ lastRun # None
  /\ lastRun[1].reported[1].kind = "Failed"
  /\ step = 4
  /\ status = "Conversion failed: ffmpeg exited with code 1"
  /\ ~conversionRunning

\* C4: at most one runConversion invocation is outstanding at any time, and
\* while one is, conversionRunning is set, which disables both Run buttons.
C4_AtMostOneConversion ==
  /\ Len(runs) <= 1
  /\ runs # <<>> => conversionRunning

\* a Run button is on screen while the engine works: its click is not taken
C4_RunShownWhileRunning ==
  /\ runs # <<>>
  /\ runs[1].pc = "engine"
  /\ RunButtonShown
  /\ mediaInfo # None

\* C5: an invocation that was asked to cancel before its engine call settled
\* reports the terminal state Cancelled, and no other.
C5_CancelEndsCancelled ==
  [][\A i \in 1..Len(runs) :
       (runs[i].pc = "engine" /\ runs[i].cancelAsked
          /\ (runs' = RemoveAt(runs, i) \/ (Len(runs') = Len(runs) /\ runs'[i].pc # "engine")))
       => LET reported == IF Len(runs') = Len(runs) THEN runs'[i].reported
                          ELSE lastRun'[1].reported
          IN  /\ Len(reported) = 1
              /\ reported[1].kind = "Cancelled"]_vars

\* C6: the step in which an engine call fails leaves the application at
\* step 4 with the failure text and conversionRunning false, with the file,
\* the media info and the options of the failed request still in place, and
\* with Run on screen, enabled and accepted.
C6_FailureRecoverable ==
  [][\A i \in 1..Len(runs) :
       (runs[i].pc = "engine" /\ runs' = RemoveAt(runs, i)
          /\ lastRun' # None /\ lastRun'[1].reported[1].kind = "Failed")
       => /\ step' = 4
          /\ status' = lastRun'[1].reported[1].status
          /\ ~conversionRunning'
          /\ selectedFile' = runs[i].options.input_path
          /\ mediaInfo' # None
          /\ transcodeOptions' = runs[i].options
          /\ RunButtonShown'
          /\ outputDir' # <<>>]_vars

\* C7: a Run click in a state with no selected file, no media info or no
\* output directory issues no request and changes nothing but status, which
\* gets the message of the missing input; every request is issued from a
\* state that has all three.
C7_RunWithoutInputsRejected ==
  [][/\ Len(runs') > Len(runs) =>
          selectedFile # <<>> /\ mediaInfo # None /\ outputDir # <<>>
     /\ (status' # status
           /\ status' \in {"Pick a media file first.", "Choose an output folder."}) =>
          /\ selectedFile = <<>> \/ mediaInfo = None \/ outputDir = <<>>
          /\ status' = IF selectedFile = <<>> \/ mediaInfo = None
                       THEN "Pick a media file first." ELSE "Choose an output folder."
          /\ UNCHANGED <<step, conversionRunning, lastOutputPath, runs, lastRun, fileVars,
                         trimVars, resolutionVars, rateVars, settingVars, outputVars,
                         picks, windowOpen, runsMade>>]_vars

\* Run was clicked with a file loaded and no output directory
C7_RunRejectedForMissingDir ==
  /\ status = "Choose an output folder."
  /\ selectedFile # <<>>
  /\ mediaInfo # None
  /\ outputDir = <<>>
  /\ runs = <<>>
  /\ runsMade = 0

(***************************************************************************)
(* Probe failure (C8).                                                     *)
(***************************************************************************)
\* C8: the step in which the probe of a picked file fails puts the error in
\* status, ends that pick without a new probe, leaves the step where it is
\* and loadingInfo false, and mediaInfo is absent after it, so that no Run
\* button is enabled.
C8_ProbeFailureHalts ==
  [][\A i \in 1..Len(picks) :
       (picks[i].pc = "probe" /\ ~analyze_media(picks[i].selected).ok
          /\ picks' = RemoveAt(picks, i))
       => /\ status' = "Failed to analyze file: " \o analyze_media(picks[i].selected).err
          /\ step' = step
          /\ ~loadingInfo'
          /\ mediaInfo' = None
          /\ ~(RunButtonShown' /\ RunButtonEnabled')]_vars

(***************************************************************************)
(* Scaled resolution presets (C9, C10), under SpecRes.                     *)
(***************************************************************************)
\* C9: every scaled preset (125%, 75%, 50%) in the list buildResolutionOptions
\* returns has an even, strictly positive width and height.
C9_ScaledPresetsEvenPositive ==
  \A k \in 1..Len(resolutionOptions) :
    resolutionOptions[k].value # "source" =>
      /\ resolutionOptions[k].width % 2 = 0
      /\ resolutionOptions[k].width > 0
      /\ resolutionOptions[k].height % 2 = 0
      /\ resolutionOptions[k].height > 0

\* the presets of an 11x11 source: all three scaled ones are in the list
C9_OddSourceScaled ==
  /\ sourceResolution = Some([width |-> 11, height |-> 11])
  /\ {resolutionOptions[k].value : k \in 1..Len(resolutionOptions)}
       = {"scale_125", "source", "scale_75", "scale_50"}

\* C10, as stated: each scaled dimension is the even integer nearest to d*f,
\* the larger one when d*f is midway between two even integers
\* (2 * Math.round(d*f / 2), for d*f = d*num/den).
C10_NearestEven ==
  \A k \in 1..Len(resolutionOptions) :
    LET o   == resolutionOptions[k]
        num == ScaleFactors[o.value][1]
        den == ScaleFactors[o.value][2]
    IN  o.value # "source" =>
          /\ o.width = 2 * ((2 * sourceResolution[1].width * num + 2 * den) \div (4 * den))
          /\ o.height = 2 * ((2 * sourceResolution[1].height * num + 2 * den) \div (4 * den))

\* C10, amended: each scaled dimension r is even and r - 1.5 <= d*f < r + 0.5
\* (d*f rounded to the nearest integer, a half rounding up, and an odd
\* result raised by one).
C10_RoundedThenRaisedToEven ==
  \A k \in 1..Len(resolutionOptions) :
    LET o   == resolutionOptions[k]
        num == ScaleFactors[o.value][1]
        den == ScaleFactors[o.value][2]
        w   == sourceResolution[1].width
        h   == sourceResolution[1].height
    IN  o.value # "source" =>
          /\ o.width % 2 = 0
          /\ (2 * o.width - 3) * den <= 2 * w * num
          /\ 2 * w * num < (2 * o.width + 1) * den
          /\ o.height % 2 = 0
          /\ (2 * o.height - 3) * den <= 2 * h * num
          /\ 2 * h * num < (2 * o.height + 1) * den

\* the 125% preset of a 2x2 source is 4x4, though 2.5 is nearer to 2 than to 4
C10_TwoByTwoScaledUp ==
  /\ sourceResolution = Some([width |-> 2, height |-> 2])
  /\ resolutionOptions # <<>>
  /\ resolutionOptions[1] = [value |-> "scale_125", width |-> 4, height |-> 4]

(***************************************************************************)
(* De-duplication of the resolution presets (C11), under SpecRes.          *)
(***************************************************************************)
\* C11: the list buildResolutionOptions returns has no two entries with the
\* same (width, height), and of the presets that produce one pair the entry
\* kept is the first in the order 125%, Source, 75%, 50%: the list is the
\* presets that no earlier preset has the size of, in that order.
C11_FirstOfEachSizeKept ==
  LET order == <<"scale_125", "source", "scale_75", "scale_50">>
      w     == sourceResolution[1].width
      h     == sourceResolution[1].height
      size(v) == IF v = "source" THEN <<w, h>>
                 ELSE <<evenDimension(w * ScaleFactors[v][1], ScaleFactors[v][2]),
                        evenDimension(h * ScaleFactors[v][1], ScaleFactors[v][2])>>
      first == {i \in 1..4 : \A j \in 1..(i - 1) : size(order[j]) # size(order[i])}
      pos(k) == CHOOSE i \in 1..4 : order[i] = resolutionOptions[k].value
  IN  resolutionOptions # <<>> =>
        /\ \A a, b \in 1..Len(resolutionOptions) :
             a # b => <<resolutionOptions[a].width, resolutionOptions[a].height>>
                        # <<resolutionOptions[b].width, resolutionOptions[b].height>>
        /\ {pos(k) : k \in 1..Len(resolutionOptions)} = first
        /\ \A a, b \in 1..Len(resolutionOptions) : a < b => pos(a) < pos(b)
        /\ \A k \in 1..Len(resolutionOptions) :
             <<resolutionOptions[k].width, resolutionOptions[k].height>>
               = size(resolutionOptions[k].value)

\* the presets of a 1x1 source: 125%, 75% and 50% all come to 2x2, and the
\* list is 125% and Source
C11_OneByOneCollapsed ==
  /\ sourceResolution = Some([width |-> 1, height |-> 1])
  /\ resolutionOptions = << [value |-> "scale_125", width |-> 2, height |-> 2],
                            [value |-> "source", width |-> 1, height |-> 1] >>

(***************************************************************************)
(* The target size (C12, C13, C14), under SpecResolution.                  *)
(***************************************************************************)
\* C12: while the media info is that of a video with positive width and
\* height and the resolution preset is "source", the resolved width and
\* height are the probed ones, and the preset list has its "source" entry.
C12_SourceResolvesToProbe ==
  (/\ mediaInfo # None
   /\ mediaInfo[1].has_video
   /\ mediaInfo[1].width # None /\ mediaInfo[1].width[1] > 0
   /\ mediaInfo[1].height # None /\ mediaInfo[1].height[1] > 0
   /\ resolutionPreset = "source")
  => /\ resolution.width = mediaInfo[1].width
     /\ resolution.height = mediaInfo[1].height
     /\ \E k \in 1..Len(resolutionOptions) : resolutionOptions[k].value = "source"

\* the 6x4 video, whose 75% preset has the size of the source, is back on
\* "source" after a custom size was typed
C12_BackOnSourceAfterCustom ==
  /\ selectedFile = FileTiny
  /\ mediaInfo # None
  /\ mediaInfo[1].width = Some(6)
  /\ resolutionPreset = "source"
  /\ customWidth = <<"6", "4", "0">>
  /\ Len(resolutionOptions) = 3

\* C13: with the "custom" preset a width or height text that does not parse
\* to a strictly positive number resolves to absent, and no transcode
\* request carries a width or height that is zero or negative.
C13_NoNonPositiveSize ==
  /\ resolutionPreset = "custom" =>
       /\ (parseInt(customWidth) = None \/ parseInt(customWidth)[1] <= 0)
            => resolution.width = None
       /\ (parseInt(customHeight) = None \/ parseInt(customHeight)[1] <= 0)
            => resolution.height = None
  /\ \A i \in 1..Len(runs) :
       /\ runs[i].options.width = None \/ runs[i].options.width[1] > 0
       /\ runs[i].options.height = None \/ runs[i].options.height[1] > 0

\* C14: in every transcode request the width and the height are both
\* present or both absent.
C14_SizeBothOrNeither ==
  \A i \in 1..Len(runs) :
    (runs[i].options.width = None) <=> (runs[i].options.height = None)

(***************************************************************************)
(* Frame rate and bitrates (C15, C16), under SpecRate.                     *)
(***************************************************************************)
\* C15: a "custom" fps, video bitrate or audio bitrate whose text does not
\* parse to a number resolves to absent, never to zero, and a request issued
\* from such a state carries null for it.
C15_UnparsedCustomIsAbsent ==
  [][ /\ (fpsPreset = "custom" /\ parseFloat(customFps) = None) =>
          /\ fpsValue = None
          /\ Len(runs') > Len(runs) => runs'[Len(runs')].options.fps = None
      /\ (videoBitratePreset = "custom" /\ parseInt(customVideoBitrate) = None) =>
          /\ videoBitrateValue = None
          /\ Len(runs') > Len(runs) =>
               runs'[Len(runs')].options.video_bitrate_kbps = None
      /\ (audioBitratePreset = "custom" /\ parseInt(customAudioBitrate) = None) =>
          /\ audioBitrateValue = None
          /\ Len(runs') > Len(runs) =>
               runs'[Len(runs')].options.audio_bitrate_kbps = None ]_vars

\* a conversion is running that was started with "custom" fps and an empty
\* fps field: its request has no fps
C15_RunWithEmptyCustomFps ==
  /\ fpsPreset = "custom"
  /\ customFps = <<>>
  /\ runs # <<>>
  /\ runs[1].pc = "engine"
  /\ runs[1].options.fps = None

\* C16: the video bitrate of every request is the resolved video bitrate,
\* not the one scaled by chosen fps / source fps that the estimate uses.
C16_RequestedBitrateUnscaled ==
  [][ Len(runs') > Len(runs) =>
        runs'[Len(runs')].options.video_bitrate_kbps = videoBitrateValue ]_vars

\* a conversion of the 30 fps, 5000 kbps video is running at 60 fps: the
\* estimate works with 10000 kbps, the request asks for 5000
C16_RunAtDoubleFps ==
  /\ fpsPreset = "60"
  /\ videoBitratePreset = "source"
  /\ sourceFps = Some(<<30, 1>>)
  /\ ~isAudioOnly
  /\ effectiveVideoBitrate = 10000
  /\ runs # <<>>
  /\ runs[1].pc = "engine"
  /\ runs[1].options.fps = Some(<<60, 1>>)
  /\ runs[1].options.video_bitrate_kbps = Some(5000)

(***************************************************************************)
(* Container and codec (C17, C18, C19), under SpecFormat.                  *)
(***************************************************************************)
\* C17: every request has is_audio_only = (no video in the source, or
\* forceAudioOnly) and a container of the audio set when is_audio_only and of
\* the video set otherwise; the container selected is always one of the set
\* of the current mode, and when a toggle, a selection or a file load
\* changes the mode it becomes the first container of the new set (mp3 or
\* mp4).
C17_ContainerFollowsMode ==
  [][ LET audioOnly(info, force) == info = None \/ ~info[1].has_video \/ force
          containers(a) == IF a THEN {"mp3", "wav", "flac", "m4a", "ogg", "opus"}
                           ELSE {"mp4", "mkv", "mov", "webm", "avi", "flv", "gif"}
          primary(a) == IF a THEN "mp3" ELSE "mp4"
      IN  /\ format' \in containers(audioOnly(mediaInfo', forceAudioOnly'))
          /\ audioOnly(mediaInfo', forceAudioOnly') # audioOnly(mediaInfo, forceAudioOnly)
               => format' = primary(audioOnly(mediaInfo', forceAudioOnly'))
          /\ Len(runs') > Len(runs) =>
               LET o == runs'[Len(runs')].options
               IN  /\ o.is_audio_only = audioOnly(mediaInfo, forceAudioOnly)
                   /\ o.format \in containers(o.is_audio_only) ]_vars

\* the 1920x1080 video is being converted to flac: audio-only was switched
\* on for it and a container chosen from the audio set
C17_VideoExtractedToFlac ==
  /\ selectedFile = FileVideo
  /\ forceAudioOnly
  /\ runs # <<>>
  /\ runs[1].pc = "engine"
  /\ runs[1].options.is_audio_only
  /\ runs[1].options.format = "flac"

\* C18: with codec selection enabled the selected codec is always in the
\* list permitted for the current container and mode (cleared when that list
\* is empty), a selection that is not in a new list is replaced by the
\* list's first entry, and a codec named in a request is in the table entry
\* for the container and mode of that request.
C18_CodecPermitted ==
  [][ LET permitted(fmt, a) ==
            LET table == IF a THEN AUDIO_CODECS_BY_FORMAT ELSE VIDEO_CODECS_BY_FORMAT
            IN  IF fmt \in DOMAIN table THEN Range(table[fmt]) ELSE {}
          first(fmt, a) ==
            (IF a THEN AUDIO_CODECS_BY_FORMAT ELSE VIDEO_CODECS_BY_FORMAT)[fmt][1]
      IN  /\ enableCodecSelection' =>
               IF permitted(format', isAudioOnly') = {} THEN selectedCodec' = ""
               ELSE /\ selectedCodec' \in permitted(format', isAudioOnly')
                    /\ selectedCodec \notin permitted(format', isAudioOnly')
                         => selectedCodec' = first(format', isAudioOnly')
          /\ Len(runs') > Len(runs) =>
               LET o == runs'[Len(runs')].options
               IN  /\ o.video_codec # None =>
                        o.video_codec[1] \in permitted(o.format, FALSE) /\ ~o.is_audio_only
                   /\ o.audio_codec # None =>
                        o.audio_codec[1] \in permitted(o.format, TRUE) /\ o.is_audio_only ]_vars

\* with codec selection enabled the video is being converted to mkv with
\* the prores_ks codec, chosen from the list of mkv
C18_RunWithChosenCodec ==
  /\ enableCodecSelection
  /\ runs # <<>>
  /\ runs[1].pc = "engine"
  /\ runs[1].options.format = "mkv"
  /\ runs[1].options.video_codec = Some("prores_ks")

\* C19: a request issued while codec selection is disabled names neither a
\* video nor an audio codec; a request never names both, a video codec only
\* when it is not audio-only and an audio codec only when it is.
C19_CodecOnlyWhenEnabled ==
  [][ Len(runs') > Len(runs) =>
        LET o == runs'[Len(runs')].options
        IN  /\ ~enableCodecSelection => (o.video_codec = None /\ o.audio_codec = None)
            /\ o.video_codec = None \/ o.audio_codec = None
            /\ o.video_codec # None => ~o.is_audio_only
            /\ o.audio_codec # None => o.is_audio_only ]_vars

\* with codec selection enabled an audio-only conversion is running: its
\* request names an audio codec and no video codec
C19_AudioRunNamesAudioCodec ==
  /\ enableCodecSelection
  /\ runs # <<>>
  /\ runs[1].pc = "engine"
  /\ runs[1].options.is_audio_only
  /\ runs[1].options.audio_codec # None
  /\ runs[1].options.video_codec = None

(***************************************************************************)
(* The output path (C20), under SpecOutput.                                *)
(***************************************************************************)
\* C20: the output file name is the filename text without its extension (a
\* final "." followed by one or more characters other than "." and "/"), or
\* "output" when nothing remains, then "." and the extension of the
\* resolved container; the output path is that name when no output folder
\* is set, and otherwise the folder, a separator unless the folder ends with
\* one, and the name.  A request carries that path.
C20_OutputPathFromNameAndFolder ==
  [][ LET text   == outputFilename'
          dots   == {k \in 1..(Len(text) - 1) :
                       /\ text[k] = "."
                       /\ \A j \in (k + 1)..Len(text) : text[j] \notin {".", "/"}}
          bare   == IF dots = {} THEN text
                    ELSE SubSeq(text, 1, (CHOOSE k \in dots : TRUE) - 1)
          base   == IF bare = <<>> THEN <<"o", "u", "t", "p", "u", "t">> ELSE bare
          opts   == IF mediaInfo' = None \/ ~mediaInfo'[1].has_video \/ forceAudioOnly'
                    THEN AUDIO_FORMAT_OPTIONS ELSE FORMAT_OPTIONS
          ext    == (CHOOSE o \in Range(opts) : o.value = format').ext
          name   == base \o <<".">> \o ext
          dir    == outputDir'
          path   == finalOutputPath'
      IN  /\ dir = <<>> => path = name
          /\ dir # <<>> =>
               \E mid \in {<<>>, <<"/">>, <<"\\">>} :
                 /\ path = dir \o mid \o name
                 /\ mid = <<>> <=> dir[Len(dir)] \in {"/", "\\"}
          /\ Len(runs') > Len(runs) =>
               /\ runs'[Len(runs')].options.output_path = path
               /\ lastOutputPath' = path ]_vars

\* the video is being converted to C:\o\a.mkv: the filename typed was
\* "a.b.c", the field kept "a.b", and the name lost ".b" again
C20_RunToBackslashFolder ==
  /\ outputFilename = <<"a", ".", "b">>
  /\ outputDir = <<"C", ":", "\\", "o">>
  /\ runs # <<>>
  /\ runs[1].pc = "engine"
  /\ runs[1].options.output_path =
       <<"C", ":", "\\", "o", "\\", "a", ".", "m", "k", "v">>

C22_ScaleIsClampedRatio ==
  LET known  == /\ sourceResolution # None
                /\ resolution.width # None
                /\ resolution.height # None
      base   == sourceResolution[1].width * sourceResolution[1].height
      target == resolution.width[1] * resolution.height[1]
      scale  == resolutionScale
  IN  /\ 5 * scale[1] >= scale[2]
      /\ 2 * scale[1] <= 3 * scale[2]
      /\ (~isAudioOnly /\ known /\ base > 0 /\ target > 0) =>
           /\ (5 * target >= base /\ 2 * target <= 3 * base) =>
                scale[1] * base = scale[2] * target
           /\ 5 * target < base => scale = <<1, 5>>
           /\ 2 * target > 3 * base => scale = <<3, 2>>
      /\ (isAudioOnly \/ ~known) => scale = <<1, 1>>

\* the 75% preset of the 1920x1080 source: 1440x810, nine sixteenths of the area
C22_ThreeQuarterPreset ==
  /\ ~isAudioOnly
  /\ resolutionPreset = "scale_75"
  /\ sourceResolution = Some([width |-> 1920, height |-> 1080])
  /\ resolutionScale = <<9, 16>>

C24_EstimateNeverGatesRun ==
  (RunButtonShown /\ runsMade < MaxRuns) =>
    (ENABLED RunStarted <=>
       /\ selectedFile # <<>>
       /\ mediaInfo # None
       /\ outputDir # <<>>
       /\ ~conversionRunning)

\* a conversion of a trimmed clip extracted to audio has been accepted
C24_RunAcceptedAfterSettings ==
  /\ conversionRunning
  /\ runsMade = 1
  /\ forceAudioOnly
  /\ hasVideoSourceOf(mediaInfo)
  /\ startMs > 0
  /\ estimatedSizeText # <<"-", "-">>

(***************************************************************************)
(* C25: a pointer-down on the trim track (duration > 0) activates the      *)
(* endpoint whose distance to the pointer's time position is the smaller,  *)
(* and the start handle when the two distances are equal.  (The time       *)
(* position is ratio * durationMs; distances are compared times            *)
(* TrackWidth.)                                                            *)
(***************************************************************************)
C25_NearerHandleActivated ==
  [][ \A x \in PointerPositions :
        TrackPointerDown(x) =>
          LET ratio == IF x < 0 THEN 0 ELSE IF x > TrackWidth THEN TrackWidth ELSE x
              toStart == Abs(ratio * durationMs - TrackWidth * startMs)
              toEnd   == Abs(ratio * durationMs - TrackWidth * endMs)
          IN  /\ toStart < toEnd => dragging' = "start"
              /\ toStart > toEnd => dragging' = "end"
              /\ toStart = toEnd => dragging' = "start" ]_vars

\* the whole clip is selected and the start handle is active, as after a
\* pointer-down on the middle of the track
C25_StartActiveOnWholeClip ==
  /\ TrimPageShown
  /\ durationMs > 0
  /\ startMs = 0
  /\ endMs = durationMs
  /\ dragging = "start"

(***************************************************************************)
(* C26: a pointer-up deactivates the handle, and a handle becomes active   *)
(* only by a pointer-down; while no handle is active, and while            *)
(* durationMs <= 0, no pointer event (down, move or up) changes startMs or *)
(* endMs.                                                                  *)
(***************************************************************************)
C26_NoMoveWithoutHandle ==
  [][ LET pointerDown  == \/ \E x \in PointerPositions : TrackPointerDown(x)
                          \/ \E which \in {"start", "end"} : HandlePointerDown(which)
          pointerEvent == \/ pointerDown
                          \/ \E x \in PointerPositions : WindowPointerMove(x)
                          \/ WindowPointerUp
      IN  /\ WindowPointerUp => dragging' = "none"
          /\ (dragging = "none" /\ dragging' # "none") => pointerDown
          /\ (pointerEvent /\ (dragging = "none" \/ durationMs <= 0)) =>
               (startMs' = startMs /\ endMs' = endMs) ]_vars

\* the start handle was dragged into the clip and released
C26_ReleasedAfterDrag ==
  /\ TrimPageShown
  /\ durationMs > 0
  /\ startMs > 0
  /\ dragging = "none"

(***************************************************************************)
(* C27: a pointer-move while the start handle is active leaves endMs       *)
(* unchanged and a pointer-move while the end handle is active leaves      *)
(* startMs unchanged; wherever the pointer is, the start that an active    *)
(* start handle is moved to lies in [0, endMs - 100] and the end that an   *)
(* active end handle is moved to lies in [startMs + 100, durationMs].      *)
(***************************************************************************)
C27_MoveWithinBounds ==
  /\ [][ \A x \in PointerPositions :
           WindowPointerMove(x) =>
             /\ dragging = "start" => endMs' = endMs
             /\ dragging = "end" => startMs' = startMs ]_vars
  /\ [](\A x \in PointerPositions :
          pointerMoveActs(dragging) =>
            /\ dragging = "start" =>
                 /\ 0 <= movedStart(pointerMs(x), endMs)
                 /\ movedStart(pointerMs(x), endMs) <= endMs - 100
            /\ dragging = "end" =>
                 /\ startMs + 100 <= movedEnd(pointerMs(x), startMs, durationMs)
                 /\ movedEnd(pointerMs(x), startMs, durationMs) <= durationMs)

(***************************************************************************)
(* C28: whenever mediaInfo is present it is the probe result of the        *)
(* selected file, and the trim range lies within that file's duration,     *)
(* under every interleaving of file picks and probe completions.           *)
(***************************************************************************)
C28_MediaInfoOfSelectedFile ==
  mediaInfo # None =>
    /\ analyze_media(selectedFile).ok
    /\ mediaInfo[1] = analyze_media(selectedFile).info
    /\ endMs <= loadedEndMs(analyze_media(selectedFile).info)

(***************************************************************************)
(* C29: for a source without video the quality step (3) is never shown:    *)
(* Next leads from step 2 to step 4 and Back from step 4 to step 2; for a  *)
(* source with video, Next (at steps 2 and 3) and Back (at steps 2 to 4)   *)
(* move by exactly one step.                                               *)
(***************************************************************************)
C29_QualityStepSkippedForAudio ==
  [][ LET audioSource == mediaInfo # None /\ ~hasVideoSourceOf(mediaInfo)
          videoSource == mediaInfo # None /\ hasVideoSourceOf(mediaInfo)
      IN  /\ ~(mediaInfo' # None /\ ~hasVideoSourceOf(mediaInfo') /\ step' = 3)
          /\ (WizardNext /\ audioSource) => (step = 2 /\ step' = 4)
          /\ (WizardBack /\ audioSource /\ step = 4) => step' = 2
          /\ (WizardNext /\ videoSource) => (step \in {2, 3} /\ step' = step + 1)
          /\ (WizardBack /\ videoSource) => (step \in {2, 3, 4} /\ step' = step - 1) ]_vars

\* an audio file is on the output step of the wizard, no conversion made yet
C29_AudioOnOutputStep ==
  /\ mediaInfo # None
  /\ ~hasVideoSourceOf(mediaInfo)
  /\ OutputPageShown
  /\ runsMade = 0

(***************************************************************************)
(* C30: a pointer-down on the trim track while no handle is active makes a *)
(* handle active and leaves startMs and endMs unchanged: the               *)
(* handlePointerMove call of the handler still sees no active handle, and  *)
(* the endpoints change on a later pointer-move at the earliest.           *)
(***************************************************************************)
C30_PointerDownKeepsRange ==
  [][ \A x \in PointerPositions :
        (dragging = "none" /\ TrackPointerDown(x)) =>
          /\ dragging' \in {"start", "end"}
          /\ startMs' = startMs
          /\ endMs' = endMs ]_vars

\* the whole clip is selected and the end handle is active, as after a
\* pointer-down on the right part of the track
C30_EndActiveOnWholeClip ==
  /\ TrimPageShown
  /\ durationMs > 0
  /\ startMs = 0
  /\ endMs = durationMs
  /\ dragging = "end"

=============================================================================
